---- MODULE Spec2Model ----
(***************************************************************************)
(* BabylonFish ML corpus generators: the base generator                    *)
(* ML/Data/generate_dataset.py (layout transliteration, quota-based        *)
(* composition, CSV writer) and the expanded generator                     *)
(* ML/generate_expanded_dataset.py (catalog concatenation, random sample,  *)
(* shuffle, truncation).                                                   *)
(***************************************************************************)
EXTENDS Integers, Sequences, FiniteSets, TLC

\* ---- Data of ML/Data/generate_dataset.py. A string is the sequence of the
\* Unicode code points of its characters; a pair <<text, label>> is an example.

\* English words and phrases (generate_dataset.py, lines 8-59).
english_words ==
  <<
    <<104, 101, 108, 108, 111>>, <<119, 111, 114, 108, 100>>, <<103, 111, 111, 100>>,
    <<109, 111, 114, 110, 105, 110, 103>>, <<101, 118, 101, 110, 105, 110, 103>>, <<110, 105, 103, 104, 116>>,
    <<100, 97, 121>>, <<119, 101, 101, 107>>, <<109, 111, 110, 116, 104>>, <<121, 101, 97, 114>>,
    <<116, 105, 109, 101>>, <<100, 97, 116, 101>>, <<110, 111, 119>>, <<116, 111, 100, 97, 121>>,
    <<116, 111, 109, 111, 114, 114, 111, 119>>, <<121, 101, 115, 116, 101, 114, 100, 97, 121>>,
    <<112, 108, 101, 97, 115, 101>>, <<116, 104, 97, 110, 107>>, <<121, 111, 117>>,
    <<119, 101, 108, 99, 111, 109, 101>>, <<115, 111, 114, 114, 121>>, <<101, 120, 99, 117, 115, 101>>,
    <<121, 101, 115>>, <<110, 111>>, <<109, 97, 121, 98, 101>>, <<111, 107>>, <<111, 107, 97, 121>>,
    <<114, 105, 103, 104, 116>>, <<119, 114, 111, 110, 103>>, <<116, 114, 117, 101>>,
    <<102, 97, 108, 115, 101>>, <<110, 101, 119>>, <<111, 108, 100>>, <<98, 105, 103>>,
    <<115, 109, 97, 108, 108>>, <<108, 111, 110, 103>>, <<115, 104, 111, 114, 116>>, <<104, 105, 103, 104>>,
    <<108, 111, 119>>, <<102, 97, 115, 116>>, <<115, 108, 111, 119>>, <<103, 111, 111, 100>>, <<98, 97, 100>>,
    <<98, 101, 116, 116, 101, 114>>, <<98, 101, 115, 116>>, <<119, 111, 114, 115, 101>>,
    <<119, 111, 114, 115, 116>>, <<109, 111, 114, 101>>, <<108, 101, 115, 115>>, <<109, 117, 99, 104>>,
    <<109, 97, 110, 121>>, <<111, 110, 101>>, <<116, 119, 111>>, <<116, 104, 114, 101, 101>>,
    <<102, 111, 117, 114>>, <<102, 105, 118, 101>>, <<115, 105, 120>>, <<115, 101, 118, 101, 110>>,
    <<101, 105, 103, 104, 116>>, <<110, 105, 110, 101>>, <<116, 101, 110>>, <<102, 105, 114, 115, 116>>,
    <<115, 101, 99, 111, 110, 100>>, <<116, 104, 105, 114, 100>>, <<108, 97, 115, 116>>,
    <<110, 101, 120, 116>>, <<112, 114, 101, 118, 105, 111, 117, 115>>, <<98, 101, 102, 111, 114, 101>>,
    <<97, 102, 116, 101, 114>>, <<100, 117, 114, 105, 110, 103>>, <<119, 104, 105, 108, 101>>,
    <<119, 105, 116, 104>>, <<119, 105, 116, 104, 111, 117, 116>>, <<102, 114, 111, 109>>, <<116, 111>>,
    <<97, 116>>, <<105, 110>>, <<111, 110>>, <<98, 121>>, <<102, 111, 114>>, <<111, 102>>, <<97, 110, 100>>,
    <<111, 114>>, <<98, 117, 116>>, <<105, 102>>, <<116, 104, 101, 110>>, <<101, 108, 115, 101>>,
    <<119, 104, 101, 110>>, <<119, 104, 101, 114, 101>>, <<119, 104, 121>>, <<104, 111, 119>>,
    <<119, 104, 97, 116>>, <<119, 104, 105, 99, 104>>, <<119, 104, 111>>, <<119, 104, 111, 109>>,
    <<119, 104, 111, 115, 101>>, <<116, 104, 105, 115>>, <<116, 104, 97, 116>>, <<116, 104, 101, 115, 101>>,
    <<116, 104, 111, 115, 101>>, <<99, 111, 109, 112, 117, 116, 101, 114>>,
    <<115, 111, 102, 116, 119, 97, 114, 101>>, <<104, 97, 114, 100, 119, 97, 114, 101>>,
    <<112, 114, 111, 103, 114, 97, 109>>, <<99, 111, 100, 101>>,
    <<100, 101, 118, 101, 108, 111, 112, 101, 114>>, <<101, 110, 103, 105, 110, 101, 101, 114>>,
    <<97, 108, 103, 111, 114, 105, 116, 104, 109>>, <<102, 117, 110, 99, 116, 105, 111, 110>>,
    <<118, 97, 114, 105, 97, 98, 108, 101>>, <<99, 111, 110, 115, 116, 97, 110, 116>>,
    <<97, 114, 114, 97, 121>>, <<115, 116, 114, 105, 110, 103>>, <<110, 117, 109, 98, 101, 114>>,
    <<98, 111, 111, 108, 101, 97, 110>>, <<99, 108, 97, 115, 115>>, <<111, 98, 106, 101, 99, 116>>,
    <<109, 101, 116, 104, 111, 100>>, <<112, 114, 111, 112, 101, 114, 116, 121>>,
    <<112, 114, 111, 116, 111, 99, 111, 108>>, <<105, 110, 116, 101, 114, 102, 97, 99, 101>>,
    <<115, 116, 114, 117, 99, 116>>, <<101, 110, 117, 109>>, <<105, 102>>, <<101, 108, 115, 101>>,
    <<102, 111, 114>>, <<119, 104, 105, 108, 101>>, <<115, 119, 105, 116, 99, 104>>, <<99, 97, 115, 101>>,
    <<98, 114, 101, 97, 107>>, <<99, 111, 110, 116, 105, 110, 117, 101>>, <<114, 101, 116, 117, 114, 110>>,
    <<105, 109, 112, 111, 114, 116>>, <<101, 120, 112, 111, 114, 116>>, <<109, 111, 100, 117, 108, 101>>,
    <<112, 97, 99, 107, 97, 103, 101>>, <<108, 105, 98, 114, 97, 114, 121>>,
    <<102, 114, 97, 109, 101, 119, 111, 114, 107>>, <<100, 101, 112, 101, 110, 100, 101, 110, 99, 121>>,
    <<103, 105, 116>>, <<99, 111, 109, 109, 105, 116>>, <<112, 117, 115, 104>>, <<112, 117, 108, 108>>,
    <<109, 101, 114, 103, 101>>, <<98, 114, 97, 110, 99, 104>>,
    <<114, 101, 112, 111, 115, 105, 116, 111, 114, 121>>, <<99, 108, 111, 110, 101>>,
    <<100, 101, 98, 117, 103>>, <<101, 114, 114, 111, 114>>, <<119, 97, 114, 110, 105, 110, 103>>,
    <<101, 120, 99, 101, 112, 116, 105, 111, 110>>, <<116, 104, 114, 111, 119>>, <<99, 97, 116, 99, 104>>,
    <<116, 114, 121>>, <<102, 105, 110, 97, 108, 108, 121>>, <<100, 97, 116, 97, 98, 97, 115, 101>>,
    <<113, 117, 101, 114, 121>>, <<116, 97, 98, 108, 101>>, <<99, 111, 108, 117, 109, 110>>,
    <<114, 111, 119>>, <<105, 110, 100, 101, 120>>, <<107, 101, 121>>, <<118, 97, 108, 117, 101>>,
    <<97, 112, 105>>, <<114, 101, 115, 116>>, <<106, 115, 111, 110>>, <<120, 109, 108>>,
    <<104, 116, 116, 112>>, <<104, 116, 116, 112, 115>>, <<117, 114, 108>>, <<117, 114, 105>>,
    <<101, 110, 100, 112, 111, 105, 110, 116>>, <<115, 101, 114, 118, 101, 114>>,
    <<99, 108, 105, 101, 110, 116>>, <<114, 101, 113, 117, 101, 115, 116>>,
    <<114, 101, 115, 112, 111, 110, 115, 101>>, <<104, 101, 97, 100, 101, 114>>, <<98, 111, 100, 121>>,
    <<115, 116, 97, 116, 117, 115>>, <<99, 111, 100, 101>>, <<116, 101, 115, 116>>, <<117, 110, 105, 116>>,
    <<105, 110, 116, 101, 103, 114, 97, 116, 105, 111, 110>>, <<109, 111, 99, 107>>, <<115, 116, 117, 98>>,
    <<97, 115, 115, 101, 114, 116>>, <<101, 120, 112, 101, 99, 116>>, <<118, 101, 114, 105, 102, 121>>,
    <<98, 117, 105, 108, 100>>, <<99, 111, 109, 112, 105, 108, 101>>, <<100, 101, 112, 108, 111, 121>>,
    <<114, 101, 108, 101, 97, 115, 101>>, <<118, 101, 114, 115, 105, 111, 110>>,
    <<117, 112, 100, 97, 116, 101>>, <<112, 97, 116, 99, 104>>, <<104, 111, 116, 102, 105, 120>>,
    <<109, 97, 99, 111, 115>>, <<105, 111, 115>>, <<97, 110, 100, 114, 111, 105, 100>>,
    <<119, 105, 110, 100, 111, 119, 115>>, <<108, 105, 110, 117, 120>>, <<117, 110, 105, 120>>,
    <<115, 121, 115, 116, 101, 109>>, <<107, 101, 114, 110, 101, 108>>, <<115, 119, 105, 102, 116>>,
    <<112, 121, 116, 104, 111, 110>>, <<106, 97, 118, 97, 115, 99, 114, 105, 112, 116>>, <<106, 97, 118, 97>>,
    <<99, 112, 112>>, <<114, 117, 115, 116>>, <<103, 111>>, <<114, 117, 98, 121>>, <<112, 104, 112>>,
    <<120, 99, 111, 100, 101>>, <<118, 115, 99, 111, 100, 101>>, <<116, 101, 114, 109, 105, 110, 97, 108>>,
    <<99, 111, 110, 115, 111, 108, 101>>, <<115, 104, 101, 108, 108>>, <<98, 97, 115, 104>>,
    <<122, 115, 104>>, <<99, 111, 109, 109, 97, 110, 100>>, <<102, 105, 108, 101>>,
    <<102, 111, 108, 100, 101, 114>>, <<100, 105, 114, 101, 99, 116, 111, 114, 121>>, <<112, 97, 116, 104>>,
    <<101, 120, 116, 101, 110, 115, 105, 111, 110>>, <<110, 97, 109, 101>>, <<115, 105, 122, 101>>,
    <<112, 101, 114, 109, 105, 115, 115, 105, 111, 110>>, <<109, 101, 109, 111, 114, 121>>, <<99, 112, 117>>,
    <<100, 105, 115, 107>>, <<110, 101, 116, 119, 111, 114, 107>>, <<105, 110, 116, 101, 114, 110, 101, 116>>,
    <<119, 105, 102, 105>>, <<98, 108, 117, 101, 116, 111, 111, 116, 104>>, <<117, 115, 98>>,
    <<109, 97, 99, 98, 111, 111, 107>>, <<105, 109, 97, 99>>, <<109, 97, 99, 109, 105, 110, 105>>,
    <<109, 97, 99, 112, 114, 111>>, <<105, 112, 104, 111, 110, 101>>, <<105, 112, 97, 100>>,
    <<105, 112, 111, 100>>, <<119, 97, 116, 99, 104>>, <<97, 112, 112, 115, 116, 111, 114, 101>>,
    <<105, 99, 108, 111, 117, 100>>, <<102, 105, 110, 100, 101, 114>>, <<100, 111, 99, 107>>,
    <<115, 112, 111, 116, 108, 105, 103, 104, 116>>, <<109, 105, 115, 115, 105, 111, 110>>,
    <<99, 111, 110, 116, 114, 111, 108>>, <<115, 105, 114, 105>>, <<97, 105, 114, 100, 114, 111, 112>>,
    <<104, 97, 110, 100, 111, 102, 102>>, <<99, 111, 110, 116, 105, 110, 117, 105, 116, 121>>,
    <<115, 105, 100, 101, 99, 97, 114>>, <<117, 110, 105, 118, 101, 114, 115, 97, 108>>,
    <<99, 108, 105, 112, 98, 111, 97, 114, 100>>, <<107, 101, 121, 98, 111, 97, 114, 100>>,
    <<109, 111, 117, 115, 101>>, <<116, 114, 97, 99, 107, 112, 97, 100>>,
    <<109, 111, 110, 105, 116, 111, 114>>, <<100, 105, 115, 112, 108, 97, 121>>,
    <<114, 101, 115, 111, 108, 117, 116, 105, 111, 110>>, <<99, 111, 108, 111, 114>>,
    <<115, 101, 116, 116, 105, 110, 103>>, <<112, 114, 101, 102, 101, 114, 101, 110, 99, 101>>,
    <<111, 112, 116, 105, 111, 110>>, <<99, 104, 111, 105, 99, 101>>,
    <<115, 101, 108, 101, 99, 116, 105, 111, 110>>, <<100, 101, 102, 97, 117, 108, 116>>,
    <<99, 117, 115, 116, 111, 109>>, <<97, 99, 99, 101, 115, 115, 105, 98, 105, 108, 105, 116, 121>>,
    <<115, 101, 99, 117, 114, 105, 116, 121>>, <<112, 114, 105, 118, 97, 99, 121>>,
    <<112, 101, 114, 109, 105, 115, 115, 105, 111, 110>>,
    <<97, 117, 116, 104, 111, 114, 105, 122, 97, 116, 105, 111, 110>>, <<108, 111, 103, 105, 110>>,
    <<112, 97, 115, 115, 119, 111, 114, 100>>, <<117, 115, 101, 114, 110, 97, 109, 101>>,
    <<101, 109, 97, 105, 108>>, <<97, 100, 100, 114, 101, 115, 115>>, <<112, 104, 111, 110, 101>>,
    <<99, 111, 110, 116, 97, 99, 116>>, <<109, 101, 115, 115, 97, 103, 101>>,
    <<104, 101, 108, 108, 111, 32, 119, 111, 114, 108, 100>>,
    <<104, 111, 119, 32, 97, 114, 101, 32, 121, 111, 117>>,
    <<103, 111, 111, 100, 32, 109, 111, 114, 110, 105, 110, 103>>,
    <<103, 111, 111, 100, 32, 101, 118, 101, 110, 105, 110, 103>>,
    <<116, 104, 97, 110, 107, 32, 121, 111, 117>>,
    <<121, 111, 117, 32, 97, 114, 101, 32, 119, 101, 108, 99, 111, 109, 101>>,
    <<101, 120, 99, 117, 115, 101, 32, 109, 101>>,
    <<115, 111, 114, 114, 121, 32, 97, 98, 111, 117, 116, 32, 116, 104, 97, 116>>,
    <<110, 111, 32, 112, 114, 111, 98, 108, 101, 109>>,
    <<116, 104, 97, 116, 32, 105, 115, 32, 102, 105, 110, 101>>,
    <<115, 101, 101, 32, 121, 111, 117, 32, 108, 97, 116, 101, 114>>,
    <<104, 97, 118, 101, 32, 97, 32, 110, 105, 99, 101, 32, 100, 97, 121>>,
    <<116, 97, 107, 101, 32, 99, 97, 114, 101>>, <<103, 111, 111, 100, 32, 108, 117, 99, 107>>,
    <<98, 101, 115, 116, 32, 119, 105, 115, 104, 101, 115>>, <<105, 32, 97, 109, 32, 102, 105, 110, 101>>,
    <<105, 32, 97, 109, 32, 103, 111, 111, 100>>, <<119, 104, 97, 116, 32, 105, 115, 32, 117, 112>>,
    <<110, 111, 116, 32, 109, 117, 99, 104>>, <<115, 97, 109, 101, 32, 104, 101, 114, 101>>,
    <<108, 101, 116, 32, 109, 101, 32, 107, 110, 111, 119>>,
    <<107, 101, 101, 112, 32, 105, 110, 32, 116, 111, 117, 99, 104>>,
    <<115, 116, 97, 121, 32, 115, 97, 102, 101>>, <<98, 101, 32, 99, 97, 114, 101, 102, 117, 108>>,
    <<97, 108, 108, 32, 116, 104, 101, 32, 98, 101, 115, 116>>,
    <<112, 114, 111, 103, 114, 97, 109, 109, 105, 110, 103, 32, 105, 115, 32, 102, 117, 110>>,
    <<99, 111, 100, 101, 32, 105, 115, 32, 112, 111, 101, 116, 114, 121>>,
    <<100, 101, 98, 117, 103, 32, 116, 104, 105, 115>>,
    <<102, 105, 120, 32, 116, 104, 101, 32, 98, 117, 103>>,
    <<114, 101, 108, 101, 97, 115, 101, 32, 105, 116>>,
    <<112, 117, 115, 104, 32, 116, 111, 32, 112, 114, 111, 100, 117, 99, 116, 105, 111, 110>>,
    <<109, 101, 114, 103, 101, 32, 116, 104, 101, 32, 98, 114, 97, 110, 99, 104>>,
    <<99, 111, 109, 109, 105, 116, 32, 99, 104, 97, 110, 103, 101, 115>>,
    <<112, 117, 108, 108, 32, 114, 101, 113, 117, 101, 115, 116>>,
    <<99, 111, 100, 101, 32, 114, 101, 118, 105, 101, 119>>,
    <<115, 121, 115, 116, 101, 109, 32, 115, 101, 116, 116, 105, 110, 103, 115>>,
    <<112, 114, 101, 102, 101, 114, 101, 110, 99, 101, 115>>,
    <<97, 99, 99, 101, 115, 115, 32, 99, 111, 110, 116, 114, 111, 108>>,
    <<117, 115, 101, 114, 32, 112, 101, 114, 109, 105, 115, 115, 105, 111, 110, 115>>,
    <<97, 100, 109, 105, 110, 32, 114, 105, 103, 104, 116, 115>>,
    <<107, 101, 121, 98, 111, 97, 114, 100, 32, 108, 97, 121, 111, 117, 116>>,
    <<105, 110, 112, 117, 116, 32, 109, 101, 116, 104, 111, 100>>,
    <<116, 101, 120, 116, 32, 105, 110, 112, 117, 116>>,
    <<115, 112, 101, 108, 108, 32, 99, 104, 101, 99, 107, 101, 114>>,
    <<97, 117, 116, 111, 99, 111, 114, 114, 101, 99, 116>>
  >>

\* Russian words and phrases (generate_dataset.py, lines 62-104).
russian_words ==
  <<
    <<1087, 1088, 1080, 1074, 1077, 1090>>, <<1084, 1080, 1088>>, <<1076, 1086, 1073, 1088, 1086, 1077>>,
    <<1091, 1090, 1088, 1086>>, <<1074, 1077, 1095, 1077, 1088>>, <<1076, 1077, 1085, 1100>>,
    <<1085, 1086, 1095, 1100>>, <<1085, 1077, 1076, 1077, 1083, 1103>>, <<1084, 1077, 1089, 1103, 1094>>,
    <<1075, 1086, 1076>>, <<1074, 1088, 1077, 1084, 1103>>, <<1076, 1072, 1090, 1072>>,
    <<1089, 1077, 1081, 1095, 1072, 1089>>, <<1089, 1077, 1075, 1086, 1076, 1085, 1103>>,
    <<1079, 1072, 1074, 1090, 1088, 1072>>, <<1074, 1095, 1077, 1088, 1072>>,
    <<1087, 1086, 1078, 1072, 1083, 1091, 1081, 1089, 1090, 1072>>,
    <<1089, 1087, 1072, 1089, 1080, 1073, 1086>>, <<1090, 1077, 1073, 1103>>,
    <<1087, 1088, 1080, 1074, 1077, 1090, 1089, 1090, 1074, 1091, 1102>>,
    <<1080, 1079, 1074, 1080, 1085, 1080>>, <<1087, 1088, 1086, 1089, 1090, 1080>>, <<1076, 1072>>,
    <<1085, 1077, 1090>>, <<1084, 1086, 1078, 1077, 1090>>, <<1093, 1086, 1088, 1086, 1096, 1086>>,
    <<1086, 1082, 1077, 1081>>, <<1087, 1088, 1072, 1074, 1080, 1083, 1100, 1085, 1086>>,
    <<1085, 1077, 1087, 1088, 1072, 1074, 1080, 1083, 1100, 1085, 1086>>, <<1076, 1072>>,
    <<1085, 1077, 1090>>, <<1085, 1086, 1074, 1099, 1081>>, <<1089, 1090, 1072, 1088, 1099, 1081>>,
    <<1073, 1086, 1083, 1100, 1096, 1086, 1081>>, <<1084, 1072, 1083, 1077, 1085, 1100, 1082, 1080, 1081>>,
    <<1076, 1083, 1080, 1085, 1085, 1099, 1081>>, <<1082, 1086, 1088, 1086, 1090, 1082, 1080, 1081>>,
    <<1074, 1099, 1089, 1086, 1082, 1080, 1081>>, <<1085, 1080, 1079, 1082, 1080, 1081>>,
    <<1073, 1099, 1089, 1090, 1088, 1099, 1081>>, <<1084, 1077, 1076, 1083, 1077, 1085, 1085, 1099, 1081>>,
    <<1093, 1086, 1088, 1086, 1096, 1080, 1081>>, <<1087, 1083, 1086, 1093, 1086, 1081>>,
    <<1083, 1091, 1095, 1096, 1077>>, <<1083, 1091, 1095, 1096, 1080, 1081>>, <<1093, 1091, 1078, 1077>>,
    <<1093, 1091, 1076, 1096, 1080, 1081>>, <<1073, 1086, 1083, 1100, 1096, 1077>>,
    <<1084, 1077, 1085, 1100, 1096, 1077>>, <<1084, 1085, 1086, 1075, 1086>>, <<1084, 1072, 1083, 1086>>,
    <<1086, 1076, 1080, 1085>>, <<1076, 1074, 1072>>, <<1090, 1088, 1080>>,
    <<1095, 1077, 1090, 1099, 1088, 1077>>, <<1087, 1103, 1090, 1100>>, <<1096, 1077, 1089, 1090, 1100>>,
    <<1089, 1077, 1084, 1100>>, <<1074, 1086, 1089, 1077, 1084, 1100>>,
    <<1076, 1077, 1074, 1103, 1090, 1100>>, <<1076, 1077, 1089, 1103, 1090, 1100>>,
    <<1087, 1077, 1088, 1074, 1099, 1081>>, <<1074, 1090, 1086, 1088, 1086, 1081>>,
    <<1090, 1088, 1077, 1090, 1080, 1081>>, <<1087, 1086, 1089, 1083, 1077, 1076, 1085, 1080, 1081>>,
    <<1089, 1083, 1077, 1076, 1091, 1102, 1097, 1080, 1081>>,
    <<1087, 1088, 1077, 1076, 1099, 1076, 1091, 1097, 1080, 1081>>, <<1076, 1086>>,
    <<1087, 1086, 1089, 1083, 1077>>, <<1074, 1086, 32, 1074, 1088, 1077, 1084, 1103>>,
    <<1087, 1086, 1082, 1072>>, <<1089>>, <<1073, 1077, 1079>>, <<1086, 1090>>, <<1082>>, <<1074>>,
    <<1085, 1072>>, <<1087, 1086>>, <<1076, 1083, 1103>>, <<1080, 1079>>, <<1086>>, <<1080>>,
    <<1080, 1083, 1080>>, <<1085, 1086>>, <<1077, 1089, 1083, 1080>>, <<1090, 1086, 1075, 1076, 1072>>,
    <<1080, 1085, 1072, 1095, 1077>>, <<1082, 1086, 1075, 1076, 1072>>, <<1075, 1076, 1077>>,
    <<1087, 1086, 1095, 1077, 1084, 1091>>, <<1082, 1072, 1082>>, <<1095, 1090, 1086>>,
    <<1082, 1086, 1090, 1086, 1088, 1099, 1081>>, <<1082, 1090, 1086>>, <<1082, 1086, 1075, 1086>>,
    <<1095, 1077, 1081>>, <<1101, 1090, 1086, 1090>>, <<1090, 1086, 1090>>, <<1101, 1090, 1080>>,
    <<1090, 1077>>, <<1082, 1086, 1084, 1087, 1100, 1102, 1090, 1077, 1088>>,
    <<1087, 1088, 1086, 1075, 1088, 1072, 1084, 1084, 1072>>, <<1082, 1086, 1076>>,
    <<1088, 1072, 1079, 1088, 1072, 1073, 1086, 1090, 1095, 1080, 1082>>,
    <<1080, 1085, 1078, 1077, 1085, 1077, 1088>>, <<1072, 1083, 1075, 1086, 1088, 1080, 1090, 1084>>,
    <<1092, 1091, 1085, 1082, 1094, 1080, 1103>>,
    <<1087, 1077, 1088, 1077, 1084, 1077, 1085, 1085, 1072, 1103>>,
    <<1082, 1086, 1085, 1089, 1090, 1072, 1085, 1090, 1072>>, <<1084, 1072, 1089, 1089, 1080, 1074>>,
    <<1089, 1090, 1088, 1086, 1082, 1072>>, <<1095, 1080, 1089, 1083, 1086>>,
    <<1083, 1086, 1075, 1080, 1095, 1077, 1089, 1082, 1080, 1081>>, <<1082, 1083, 1072, 1089, 1089>>,
    <<1086, 1073, 1098, 1077, 1082, 1090>>, <<1084, 1077, 1090, 1086, 1076>>,
    <<1089, 1074, 1086, 1081, 1089, 1090, 1074, 1086>>, <<1087, 1088, 1086, 1090, 1086, 1082, 1086, 1083>>,
    <<1080, 1085, 1090, 1077, 1088, 1092, 1077, 1081, 1089>>,
    <<1089, 1090, 1088, 1091, 1082, 1090, 1091, 1088, 1072>>,
    <<1087, 1077, 1088, 1077, 1095, 1080, 1089, 1083, 1077, 1085, 1080, 1077>>, <<1077, 1089, 1083, 1080>>,
    <<1080, 1085, 1072, 1095, 1077>>, <<1076, 1083, 1103>>, <<1087, 1086, 1082, 1072>>,
    <<1087, 1077, 1088, 1077, 1082, 1083, 1102, 1095, 1072, 1090, 1077, 1083, 1100>>,
    <<1089, 1083, 1091, 1095, 1072, 1081>>, <<1087, 1088, 1077, 1088, 1099, 1074, 1072, 1085, 1080, 1077>>,
    <<1087, 1088, 1086, 1076, 1086, 1083, 1078, 1077, 1085, 1080, 1077>>,
    <<1074, 1077, 1088, 1085, 1091, 1090, 1100>>, <<1080, 1084, 1087, 1086, 1088, 1090>>,
    <<1101, 1082, 1089, 1087, 1086, 1088, 1090>>, <<1084, 1086, 1076, 1091, 1083, 1100>>,
    <<1087, 1072, 1082, 1077, 1090>>, <<1073, 1080, 1073, 1083, 1080, 1086, 1090, 1077, 1082, 1072>>,
    <<1092, 1088, 1077, 1081, 1084, 1074, 1086, 1088, 1082>>,
    <<1079, 1072, 1074, 1080, 1089, 1080, 1084, 1086, 1089, 1090, 1100>>, <<1075, 1080, 1090>>,
    <<1082, 1086, 1084, 1084, 1080, 1090>>, <<1087, 1091, 1096>>, <<1087, 1091, 1083, 1083>>,
    <<1089, 1083, 1080, 1103, 1085, 1080, 1077>>, <<1074, 1077, 1090, 1082, 1072>>,
    <<1088, 1077, 1087, 1086, 1079, 1080, 1090, 1086, 1088, 1080, 1081>>, <<1082, 1083, 1086, 1085>>,
    <<1086, 1090, 1083, 1072, 1076, 1082, 1072>>, <<1086, 1096, 1080, 1073, 1082, 1072>>,
    <<1087, 1088, 1077, 1076, 1091, 1087, 1088, 1077, 1078, 1076, 1077, 1085, 1080, 1077>>,
    <<1080, 1089, 1082, 1083, 1102, 1095, 1077, 1085, 1080, 1077>>,
    <<1074, 1099, 1073, 1088, 1086, 1089, 1080, 1090, 1100>>, <<1087, 1086, 1081, 1084, 1072, 1090, 1100>>,
    <<1087, 1086, 1087, 1088, 1086, 1073, 1086, 1074, 1072, 1090, 1100>>,
    <<1085, 1072, 1082, 1086, 1085, 1077, 1094>>,
    <<1073, 1072, 1079, 1072, 32, 1076, 1072, 1085, 1085, 1099, 1093>>,
    <<1079, 1072, 1087, 1088, 1086, 1089>>, <<1090, 1072, 1073, 1083, 1080, 1094, 1072>>,
    <<1082, 1086, 1083, 1086, 1085, 1082, 1072>>, <<1089, 1090, 1088, 1086, 1082, 1072>>,
    <<1080, 1085, 1076, 1077, 1082, 1089>>, <<1082, 1083, 1102, 1095>>,
    <<1079, 1085, 1072, 1095, 1077, 1085, 1080, 1077>>, <<1072, 1087, 1080>>,
    <<1088, 1077, 1089, 1091, 1088, 1089>>, <<1076, 1078, 1077, 1081, 1089, 1086, 1085>>,
    <<1101, 1082, 1089, 1101, 1084, 1101, 1083, 1100>>, <<1093, 1090, 1090, 1087>>,
    <<1093, 1090, 1090, 1087, 1089>>, <<1091, 1088, 1083>>, <<1091, 1088, 1080>>,
    <<1101, 1085, 1076, 1087, 1086, 1080, 1085, 1090>>, <<1089, 1077, 1088, 1074, 1077, 1088>>,
    <<1082, 1083, 1080, 1077, 1085, 1090>>, <<1079, 1072, 1087, 1088, 1086, 1089>>,
    <<1086, 1090, 1074, 1077, 1090>>, <<1079, 1072, 1075, 1086, 1083, 1086, 1074, 1086, 1082>>,
    <<1090, 1077, 1083, 1086>>, <<1089, 1090, 1072, 1090, 1091, 1089>>, <<1082, 1086, 1076>>,
    <<1090, 1077, 1089, 1090>>, <<1102, 1085, 1080, 1090>>,
    <<1080, 1085, 1090, 1077, 1075, 1088, 1072, 1094, 1080, 1086, 1085, 1085, 1099, 1081>>,
    <<1084, 1086, 1082>>, <<1079, 1072, 1075, 1083, 1091, 1096, 1082, 1072>>,
    <<1087, 1088, 1086, 1074, 1077, 1088, 1082, 1072>>, <<1086, 1078, 1080, 1076, 1072, 1085, 1080, 1077>>,
    <<1074, 1077, 1088, 1080, 1092, 1080, 1082, 1072, 1094, 1080, 1103>>,
    <<1089, 1073, 1086, 1088, 1082, 1072>>, <<1082, 1086, 1084, 1087, 1080, 1083, 1103, 1094, 1080, 1103>>,
    <<1088, 1072, 1079, 1074, 1077, 1088, 1090, 1099, 1074, 1072, 1085, 1080, 1077>>,
    <<1088, 1077, 1083, 1080, 1079>>, <<1074, 1077, 1088, 1089, 1080, 1103>>,
    <<1086, 1073, 1085, 1086, 1074, 1083, 1077, 1085, 1080, 1077>>, <<1087, 1072, 1090, 1095>>,
    <<1093, 1086, 1090, 1092, 1080, 1082, 1089>>, <<1084, 1072, 1082, 1086, 1089>>,
    <<1072, 1081, 1086, 1089>>, <<1072, 1085, 1076, 1088, 1086, 1080, 1076>>,
    <<1074, 1080, 1085, 1076, 1086, 1091, 1089>>, <<1083, 1080, 1085, 1091, 1082, 1089>>,
    <<1102, 1085, 1080, 1082, 1089>>, <<1089, 1080, 1089, 1090, 1077, 1084, 1072>>,
    <<1103, 1076, 1088, 1086>>, <<1089, 1074, 1080, 1092, 1090>>, <<1087, 1080, 1090, 1086, 1085>>,
    <<1076, 1078, 1072, 1074, 1072, 1089, 1082, 1088, 1080, 1087, 1090>>, <<1076, 1078, 1072, 1074, 1072>>,
    <<1089, 1080, 32, 1087, 1083, 1102, 1089, 32, 1087, 1083, 1102, 1089>>, <<1088, 1072, 1089, 1090>>,
    <<1075, 1086>>, <<1088, 1091, 1073, 1080>>, <<1087, 1093, 1087>>, <<1080, 1082, 1089, 1082, 1086, 1076>>,
    <<1074, 1089, 1082, 1091, 1083, 1082, 1086, 1076>>, <<1090, 1077, 1088, 1084, 1080, 1085, 1072, 1083>>,
    <<1082, 1086, 1085, 1089, 1086, 1083, 1100>>, <<1096, 1077, 1083, 1083>>, <<1073, 1072, 1096>>,
    <<1079, 1096>>, <<1082, 1086, 1084, 1072, 1085, 1076, 1072>>, <<1092, 1072, 1081, 1083>>,
    <<1087, 1072, 1087, 1082, 1072>>, <<1076, 1080, 1088, 1077, 1082, 1090, 1086, 1088, 1080, 1103>>,
    <<1087, 1091, 1090, 1100>>, <<1088, 1072, 1089, 1096, 1080, 1088, 1077, 1085, 1080, 1077>>,
    <<1080, 1084, 1103>>, <<1088, 1072, 1079, 1084, 1077, 1088>>, <<1087, 1088, 1072, 1074, 1072>>,
    <<1087, 1072, 1084, 1103, 1090, 1100>>, <<1087, 1088, 1086, 1094, 1077, 1089, 1089, 1086, 1088>>,
    <<1076, 1080, 1089, 1082>>, <<1089, 1077, 1090, 1100>>,
    <<1080, 1085, 1090, 1077, 1088, 1085, 1077, 1090>>, <<1074, 1072, 1081, 1092, 1072, 1081>>,
    <<1073, 1083, 1102, 1090, 1091, 1089>>, <<1102, 1101, 1089, 1073, 1080>>,
    <<1087, 1088, 1080, 1074, 1077, 1090, 32, 1084, 1080, 1088>>,
    <<1082, 1072, 1082, 32, 1076, 1077, 1083, 1072>>,
    <<1076, 1086, 1073, 1088, 1086, 1077, 32, 1091, 1090, 1088, 1086>>,
    <<1076, 1086, 1073, 1088, 1099, 1081, 32, 1074, 1077, 1095, 1077, 1088>>,
    <<1089, 1087, 1072, 1089, 1080, 1073, 1086, 32, 1090, 1077, 1073, 1077>>,
    <<1085, 1077, 32, 1079, 1072, 32, 1095, 1090, 1086>>,
    <<1080, 1079, 1074, 1080, 1085, 1080, 32, 1084, 1077, 1085, 1103>>,
    <<1087, 1088, 1086, 1089, 1090, 1080, 32, 1079, 1072, 32, 1101, 1090, 1086>>,
    <<1085, 1077, 1090, 32, 1087, 1088, 1086, 1073, 1083, 1077, 1084>>,
    <<1074, 1089, 1077, 32, 1074, 32, 1087, 1086, 1088, 1103, 1076, 1082, 1077>>,
    <<1091, 1074, 1080, 1076, 1080, 1084, 1089, 1103, 32, 1087, 1086, 1079, 1078, 1077>>,
    <<1093, 1086, 1088, 1086, 1096, 1077, 1075, 1086, 32, 1076, 1085, 1103>>, <<1087, 1086, 1082, 1072>>,
    <<1091, 1076, 1072, 1095, 1080>>,
    <<1085, 1072, 1080, 1083, 1091, 1095, 1096, 1080, 1093, 32, 1087, 1086, 1078, 1077, 1083, 1072, 1085, 1080, 1081>>,
    <<1103, 32, 1074, 32, 1087, 1086, 1088, 1103, 1076, 1082, 1077>>,
    <<1103, 32, 1093, 1086, 1088, 1086, 1096, 1086>>,
    <<1095, 1090, 1086, 32, 1085, 1086, 1074, 1086, 1075, 1086>>,
    <<1085, 1080, 1095, 1077, 1075, 1086, 32, 1086, 1089, 1086, 1073, 1077, 1085, 1085, 1086, 1075, 1086>>,
    <<1090, 1072, 1082, 32, 1078, 1077>>, <<1076, 1072, 1081, 32, 1079, 1085, 1072, 1090, 1100>>,
    <<1076, 1077, 1088, 1078, 1080, 1089, 1100>>,
    <<1073, 1091, 1076, 1100, 32, 1086, 1089, 1090, 1086, 1088, 1086, 1078, 1077, 1085>>,
    <<1074, 1089, 1077, 32, 1089, 1072, 1084, 1086, 1077, 32, 1083, 1091, 1095, 1096, 1077, 1077>>,
    <<1089, 1095, 1072, 1089, 1090, 1083, 1080, 1074, 1086>>,
    <<1087, 1088, 1086, 1075, 1088, 1072, 1084, 1084, 1080, 1088, 1086, 1074, 1072, 1085, 1080, 1077, 32, 1101, 1090, 1086, 32, 1074, 1077, 1089, 1077, 1083, 1086>>,
    <<1082, 1086, 1076, 32, 1101, 1090, 1086, 32, 1087, 1086, 1101, 1079, 1080, 1103>>,
    <<1086, 1090, 1083, 1072, 1076, 1100, 32, 1101, 1090, 1086>>,
    <<1080, 1089, 1087, 1088, 1072, 1074, 1100, 32, 1086, 1096, 1080, 1073, 1082, 1091>>,
    <<1074, 1099, 1087, 1091, 1089, 1090, 1080, 32, 1088, 1077, 1083, 1080, 1079>>,
    <<1079, 1072, 1087, 1091, 1096, 1080, 32, 1074, 32, 1087, 1088, 1086, 1076, 1072, 1082, 1096, 1085>>,
    <<1089, 1084, 1077, 1088, 1078, 1080, 32, 1074, 1077, 1090, 1082, 1091>>,
    <<1079, 1072, 1082, 1086, 1084, 1084, 1080, 1090, 1080, 32, 1080, 1079, 1084, 1077, 1085, 1077, 1085, 1080, 1103>>,
    <<1079, 1072, 1087, 1091, 1096, 1080, 32, 1079, 1072, 1087, 1088, 1086, 1089>>,
    <<1088, 1077, 1074, 1100, 1102, 32, 1082, 1086, 1076, 1072>>,
    <<1089, 1080, 1089, 1090, 1077, 1084, 1085, 1099, 1077, 32, 1085, 1072, 1089, 1090, 1088, 1086, 1081, 1082, 1080>>,
    <<1087, 1088, 1077, 1076, 1087, 1086, 1095, 1090, 1077, 1085, 1080, 1103>>,
    <<1082, 1086, 1085, 1090, 1088, 1086, 1083, 1100, 32, 1076, 1086, 1089, 1090, 1091, 1087, 1072>>,
    <<1087, 1088, 1072, 1074, 1072, 32, 1087, 1086, 1083, 1100, 1079, 1086, 1074, 1072, 1090, 1077, 1083, 1103>>,
    <<1072, 1076, 1084, 1080, 1085, 32, 1087, 1088, 1072, 1074, 1072>>,
    <<1088, 1072, 1089, 1082, 1083, 1072, 1076, 1082, 1072, 32, 1082, 1083, 1072, 1074, 1080, 1072, 1090, 1091, 1088, 1099>>,
    <<1084, 1077, 1090, 1086, 1076, 32, 1074, 1074, 1086, 1076, 1072>>,
    <<1074, 1074, 1086, 1076, 32, 1090, 1077, 1082, 1089, 1090, 1072>>,
    <<1087, 1088, 1086, 1074, 1077, 1088, 1082, 1072, 32, 1086, 1088, 1092, 1086, 1075, 1088, 1072, 1092, 1080, 1080>>,
    <<1072, 1074, 1090, 1086, 1080, 1089, 1087, 1088, 1072, 1074, 1083, 1077, 1085, 1080, 1077>>
  >>

\* The Latin layout string as it would be without its last character.
en_layout_truncated ==
    << 113, 119, 101, 114, 116, 121, 117, 105, 111, 112, 91, 93, 97, 115, 100, 102, 103, 104, 106, 107, 108,
       59, 39, 122, 120, 99, 118, 98, 110, 109, 44, 46, 47, 81, 87, 69, 82, 84, 89, 85, 73, 79, 80, 123, 125,
       65, 83, 68, 70, 71, 72, 74, 75, 76, 58, 34, 90, 88, 67, 86, 66, 78, 77, 60, 62 >>

\* Latin keyboard layout string (generate_dataset.py, lines 107-107).
en_layout ==
    << 113, 119, 101, 114, 116, 121, 117, 105, 111, 112, 91, 93, 97, 115, 100, 102, 103, 104, 106, 107, 108,
       59, 39, 122, 120, 99, 118, 98, 110, 109, 44, 46, 47, 81, 87, 69, 82, 84, 89, 85, 73, 79, 80, 123, 125,
       65, 83, 68, 70, 71, 72, 74, 75, 76, 58, 34, 90, 88, 67, 86, 66, 78, 77, 60, 62, 63 >>

\* Cyrillic keyboard layout string (generate_dataset.py, lines 108-108).
ru_layout ==
    << 1081, 1094, 1091, 1082, 1077, 1085, 1075, 1096, 1097, 1079, 1093, 1098, 1092, 1099, 1074, 1072, 1087,
       1088, 1086, 1083, 1076, 1078, 1101, 1103, 1095, 1089, 1084, 1080, 1090, 1100, 1073, 1102, 46, 1049,
       1062, 1059, 1050, 1045, 1053, 1043, 1064, 1065, 1047, 1061, 1066, 1060, 1067, 1042, 1040, 1055, 1056,
       1054, 1051, 1044, 1046, 1069, 1071, 1063, 1057, 1052, 1048, 1058, 1068, 1041, 1070, 44 >>

\* Curated seed pairs (generate_dataset.py, lines 129-142).
original_data ==
  <<
    <<<<104, 101, 108, 108, 111, 32, 119, 111, 114, 108, 100>>, "en">>,
    <<<<104, 111, 119, 32, 97, 114, 101, 32, 121, 111, 117>>, "en">>,
    <<<<112, 114, 111, 103, 114, 97, 109, 109, 105, 110, 103, 32, 105, 115, 32, 102, 117, 110>>, "en">>,
    <<<<115, 119, 105, 102, 116, 32, 108, 97, 110, 103, 117, 97, 103, 101>>, "en">>,
    <<<<97, 112, 112, 108, 101, 32, 109, 97, 99, 98, 111, 111, 107, 32, 112, 114, 111>>, "en">>,
    <<<<107, 101, 121, 98, 111, 97, 114, 100, 32, 108, 97, 121, 111, 117, 116>>, "en">>,
    <<<<105, 110, 112, 117, 116, 32, 109, 111, 110, 105, 116, 111, 114, 105, 110, 103>>, "en">>,
    <<<<115, 121, 115, 116, 101, 109, 32, 115, 101, 116, 116, 105, 110, 103, 115>>, "en">>,
    <<<<97, 99, 99, 101, 115, 115, 32, 99, 111, 110, 116, 114, 111, 108>>, "en">>,
    <<<<112, 101, 114, 109, 105, 115, 115, 105, 111, 110, 115, 32, 114, 101, 115, 101, 116>>, "en">>,
    <<<<1087, 1088, 1080, 1074, 1077, 1090, 32, 1084, 1080, 1088>>, "ru">>,
    <<<<1082, 1072, 1082, 32, 1076, 1077, 1083, 1072>>, "ru">>,
    <<<<1087, 1088, 1086, 1075, 1088, 1072, 1084, 1084, 1080, 1088, 1086, 1074, 1072, 1085, 1080, 1077, 32, 1101, 1090, 1086, 32, 1074, 1077, 1089, 1077, 1083, 1086>>, "ru">>,
    <<<<1103, 1079, 1099, 1082, 32, 1089, 1074, 1080, 1092, 1090>>, "ru">>,
    <<<<1103, 1073, 1083, 1086, 1095, 1085, 1099, 1081, 32, 1085, 1086, 1091, 1090, 1073, 1091, 1082>>, "ru">>,
    <<<<1088, 1072, 1089, 1082, 1083, 1072, 1076, 1082, 1072, 32, 1082, 1083, 1072, 1074, 1080, 1072, 1090, 1091, 1088, 1099>>, "ru">>,
    <<<<1084, 1086, 1085, 1080, 1090, 1086, 1088, 1080, 1085, 1075, 32, 1074, 1074, 1086, 1076, 1072>>, "ru">>,
    <<<<1089, 1080, 1089, 1090, 1077, 1084, 1085, 1099, 1077, 32, 1085, 1072, 1089, 1090, 1088, 1086, 1081, 1082, 1080>>, "ru">>,
    <<<<1082, 1086, 1085, 1090, 1088, 1086, 1083, 1100, 32, 1076, 1086, 1089, 1090, 1091, 1087, 1072>>, "ru">>,
    <<<<1089, 1073, 1088, 1086, 1089, 32, 1087, 1088, 1072, 1074>>, "ru">>,
    <<<<103, 104, 98, 100, 116, 110>>, "ru_wrong">>,
    <<<<114, 102, 114, 32, 108, 116, 107, 102>>, "ru_wrong">>, <<<<110, 116, 99, 110>>, "ru_wrong">>,
    <<<<102, 103, 103, 107, 116>>, "ru_wrong">>, <<<<113, 119, 101, 114, 116, 121>>, "en">>,
    <<<<1081, 1094, 1091, 1082, 1077, 1085>>, "ru">>,
    <<<<98, 117, 105, 108, 100, 105, 110, 103, 32, 112, 114, 111, 106, 101, 99, 116>>, "en">>,
    <<<<1089, 1073, 1086, 1088, 1082, 1072, 32, 1087, 1088, 1086, 1077, 1082, 1090, 1072>>, "ru">>,
    <<<<118, 101, 114, 115, 105, 111, 110, 32, 99, 111, 110, 116, 114, 111, 108>>, "en">>,
    <<<<1082, 1086, 1085, 1090, 1088, 1086, 1083, 1100, 32, 1074, 1077, 1088, 1089, 1080, 1081>>, "ru">>
  >>

\* English phrases (generate_dataset.py, lines 169-180).
en_phrases ==
  <<
    <<103, 111, 111, 100, 32, 109, 111, 114, 110, 105, 110, 103>>,
    <<104, 97, 118, 101, 32, 97, 32, 110, 105, 99, 101, 32, 100, 97, 121>>,
    <<115, 101, 101, 32, 121, 111, 117, 32, 108, 97, 116, 101, 114>>,
    <<116, 104, 97, 110, 107, 32, 121, 111, 117, 32, 118, 101, 114, 121, 32, 109, 117, 99, 104>>,
    <<101, 120, 99, 117, 115, 101, 32, 109, 101, 32, 112, 108, 101, 97, 115, 101>>,
    <<110, 111, 32, 112, 114, 111, 98, 108, 101, 109, 32, 97, 116, 32, 97, 108, 108>>,
    <<116, 104, 97, 116, 32, 105, 115, 32, 99, 111, 114, 114, 101, 99, 116>>,
    <<105, 32, 97, 109, 32, 102, 105, 110, 101>>, <<119, 104, 97, 116, 32, 105, 115, 32, 110, 101, 119>>,
    <<110, 111, 116, 104, 105, 110, 103, 32, 115, 112, 101, 99, 105, 97, 108>>,
    <<115, 97, 109, 101, 32, 97, 115, 32, 97, 108, 119, 97, 121, 115>>,
    <<97, 108, 108, 32, 103, 111, 111, 100, 32, 104, 101, 114, 101>>,
    <<112, 114, 111, 103, 114, 97, 109, 109, 105, 110, 103, 32, 108, 97, 110, 103, 117, 97, 103, 101>>,
    <<115, 111, 102, 116, 119, 97, 114, 101, 32, 100, 101, 118, 101, 108, 111, 112, 109, 101, 110, 116>>,
    <<109, 97, 99, 104, 105, 110, 101, 32, 108, 101, 97, 114, 110, 105, 110, 103>>,
    <<97, 114, 116, 105, 102, 105, 99, 105, 97, 108, 32, 105, 110, 116, 101, 108, 108, 105, 103, 101, 110, 99, 101>>,
    <<100, 97, 116, 97, 32, 115, 99, 105, 101, 110, 99, 101>>,
    <<119, 101, 98, 32, 100, 101, 118, 101, 108, 111, 112, 109, 101, 110, 116>>,
    <<109, 111, 98, 105, 108, 101, 32, 97, 112, 112>>,
    <<117, 115, 101, 114, 32, 105, 110, 116, 101, 114, 102, 97, 99, 101>>,
    <<117, 115, 101, 114, 32, 101, 120, 112, 101, 114, 105, 101, 110, 99, 101>>,
    <<111, 112, 101, 114, 97, 116, 105, 110, 103, 32, 115, 121, 115, 116, 101, 109>>,
    <<99, 111, 109, 112, 117, 116, 101, 114, 32, 115, 99, 105, 101, 110, 99, 101>>,
    <<105, 110, 102, 111, 114, 109, 97, 116, 105, 111, 110, 32, 116, 101, 99, 104, 110, 111, 108, 111, 103, 121>>,
    <<110, 101, 116, 119, 111, 114, 107, 32, 115, 101, 99, 117, 114, 105, 116, 121>>,
    <<99, 108, 111, 117, 100, 32, 99, 111, 109, 112, 117, 116, 105, 110, 103>>,
    <<100, 97, 116, 97, 98, 97, 115, 101, 32, 109, 97, 110, 97, 103, 101, 109, 101, 110, 116>>,
    <<115, 121, 115, 116, 101, 109, 32, 97, 114, 99, 104, 105, 116, 101, 99, 116, 117, 114, 101>>,
    <<99, 111, 100, 101, 32, 114, 101, 118, 105, 101, 119>>,
    <<118, 101, 114, 115, 105, 111, 110, 32, 99, 111, 110, 116, 114, 111, 108>>,
    <<99, 111, 110, 116, 105, 110, 117, 111, 117, 115, 32, 105, 110, 116, 101, 103, 114, 97, 116, 105, 111, 110>>,
    <<116, 101, 115, 116, 105, 110, 103, 32, 102, 114, 97, 109, 101, 119, 111, 114, 107>>,
    <<100, 101, 98, 117, 103, 103, 105, 110, 103, 32, 116, 111, 111, 108>>,
    <<100, 101, 118, 101, 108, 111, 112, 109, 101, 110, 116, 32, 101, 110, 118, 105, 114, 111, 110, 109, 101, 110, 116>>,
    <<112, 114, 111, 100, 117, 99, 116, 105, 111, 110, 32, 115, 101, 114, 118, 101, 114>>,
    <<97, 99, 99, 101, 115, 115, 32, 99, 111, 110, 116, 114, 111, 108>>,
    <<117, 115, 101, 114, 32, 112, 101, 114, 109, 105, 115, 115, 105, 111, 110, 115>>,
    <<97, 100, 109, 105, 110, 32, 114, 105, 103, 104, 116, 115>>,
    <<115, 121, 115, 116, 101, 109, 32, 112, 114, 101, 102, 101, 114, 101, 110, 99, 101, 115>>
  >>

\* Russian phrases (generate_dataset.py, lines 187-197).
ru_phrases ==
  <<
    <<1076, 1086, 1073, 1088, 1086, 1077, 32, 1091, 1090, 1088, 1086>>,
    <<1093, 1086, 1088, 1086, 1096, 1077, 1075, 1086, 32, 1076, 1085, 1103>>,
    <<1091, 1074, 1080, 1076, 1080, 1084, 1089, 1103, 32, 1087, 1086, 1079, 1078, 1077>>,
    <<1073, 1086, 1083, 1100, 1096, 1086, 1077, 32, 1089, 1087, 1072, 1089, 1080, 1073, 1086>>,
    <<1080, 1079, 1074, 1080, 1085, 1080, 32, 1087, 1086, 1078, 1072, 1083, 1091, 1081, 1089, 1090, 1072>>,
    <<1085, 1077, 1090, 32, 1087, 1088, 1086, 1073, 1083, 1077, 1084>>,
    <<1101, 1090, 1086, 32, 1087, 1088, 1072, 1074, 1080, 1083, 1100, 1085, 1086>>,
    <<1103, 32, 1074, 32, 1087, 1086, 1088, 1103, 1076, 1082, 1077>>,
    <<1095, 1090, 1086, 32, 1085, 1086, 1074, 1086, 1075, 1086>>,
    <<1085, 1080, 1095, 1077, 1075, 1086, 32, 1086, 1089, 1086, 1073, 1077, 1085, 1085, 1086, 1075, 1086>>,
    <<1082, 1072, 1082, 32, 1074, 1089, 1077, 1075, 1076, 1072>>,
    <<1074, 1089, 1077, 32, 1093, 1086, 1088, 1086, 1096, 1086>>,
    <<1103, 1079, 1099, 1082, 32, 1087, 1088, 1086, 1075, 1088, 1072, 1084, 1084, 1080, 1088, 1086, 1074, 1072, 1085, 1080, 1103>>,
    <<1088, 1072, 1079, 1088, 1072, 1073, 1086, 1090, 1082, 1072, 32, 1087, 1088, 1086, 1075, 1088, 1072, 1084, 1084, 1085, 1086, 1075, 1086, 32, 1086, 1073, 1077, 1089, 1087, 1077, 1095, 1077, 1085, 1080, 1103>>,
    <<1084, 1072, 1096, 1080, 1085, 1085, 1086, 1077, 32, 1086, 1073, 1091, 1095, 1077, 1085, 1080, 1077>>,
    <<1080, 1089, 1082, 1091, 1089, 1089, 1090, 1074, 1077, 1085, 1085, 1099, 1081, 32, 1080, 1085, 1090, 1077, 1083, 1083, 1077, 1082, 1090>>,
    <<1085, 1072, 1091, 1082, 1072, 32, 1086, 32, 1076, 1072, 1085, 1085, 1099, 1093>>,
    <<1074, 1077, 1073, 32, 1088, 1072, 1079, 1088, 1072, 1073, 1086, 1090, 1082, 1072>>,
    <<1084, 1086, 1073, 1080, 1083, 1100, 1085, 1086, 1077, 32, 1087, 1088, 1080, 1083, 1086, 1078, 1077, 1085, 1080, 1077>>,
    <<1087, 1086, 1083, 1100, 1079, 1086, 1074, 1072, 1090, 1077, 1083, 1100, 1089, 1082, 1080, 1081, 32, 1080, 1085, 1090, 1077, 1088, 1092, 1077, 1081, 1089>>,
    <<1087, 1086, 1083, 1100, 1079, 1086, 1074, 1072, 1090, 1077, 1083, 1100, 1089, 1082, 1080, 1081, 32, 1086, 1087, 1099, 1090>>,
    <<1086, 1087, 1077, 1088, 1072, 1094, 1080, 1086, 1085, 1085, 1072, 1103, 32, 1089, 1080, 1089, 1090, 1077, 1084, 1072>>,
    <<1080, 1085, 1092, 1086, 1088, 1084, 1072, 1090, 1080, 1082, 1072>>,
    <<1080, 1085, 1092, 1086, 1088, 1084, 1072, 1094, 1080, 1086, 1085, 1085, 1099, 1077, 32, 1090, 1077, 1093, 1085, 1086, 1083, 1086, 1075, 1080, 1080>>,
    <<1073, 1077, 1079, 1086, 1087, 1072, 1089, 1085, 1086, 1089, 1090, 1100, 32, 1089, 1077, 1090, 1080>>,
    <<1086, 1073, 1083, 1072, 1095, 1085, 1099, 1077, 32, 1074, 1099, 1095, 1080, 1089, 1083, 1077, 1085, 1080, 1103>>,
    <<1091, 1087, 1088, 1072, 1074, 1083, 1077, 1085, 1080, 1077, 32, 1073, 1072, 1079, 1072, 1084, 1080, 32, 1076, 1072, 1085, 1085, 1099, 1093>>,
    <<1089, 1080, 1089, 1090, 1077, 1084, 1085, 1072, 1103, 32, 1072, 1088, 1093, 1080, 1090, 1077, 1082, 1090, 1091, 1088, 1072>>,
    <<1088, 1077, 1074, 1100, 1102, 32, 1082, 1086, 1076, 1072>>,
    <<1082, 1086, 1085, 1090, 1088, 1086, 1083, 1100, 32, 1074, 1077, 1088, 1089, 1080, 1081>>,
    <<1085, 1077, 1087, 1088, 1077, 1088, 1099, 1074, 1085, 1072, 1103, 32, 1080, 1085, 1090, 1077, 1075, 1088, 1072, 1094, 1080, 1103>>,
    <<1092, 1088, 1077, 1081, 1084, 1074, 1086, 1088, 1082, 32, 1090, 1077, 1089, 1090, 1080, 1088, 1086, 1074, 1072, 1085, 1080, 1103>>,
    <<1080, 1085, 1089, 1090, 1088, 1091, 1084, 1077, 1085, 1090, 32, 1086, 1090, 1083, 1072, 1076, 1082, 1080>>,
    <<1089, 1088, 1077, 1076, 1072, 32, 1088, 1072, 1079, 1088, 1072, 1073, 1086, 1090, 1082, 1080>>,
    <<1089, 1077, 1088, 1074, 1077, 1088, 32, 1076, 1083, 1103, 32, 1087, 1088, 1086, 1076, 1072, 1082, 1096, 1077, 1085, 1072>>
  >>

\* Russian phrases to transliterate (generate_dataset.py, lines 204-213).
ru_phrases_to_convert ==
  <<
    <<1076, 1086, 1073, 1088, 1086, 1077, 32, 1091, 1090, 1088, 1086>>,
    <<1093, 1086, 1088, 1086, 1096, 1077, 1075, 1086, 32, 1076, 1085, 1103>>,
    <<1091, 1074, 1080, 1076, 1080, 1084, 1089, 1103, 32, 1087, 1086, 1079, 1078, 1077>>,
    <<1073, 1086, 1083, 1100, 1096, 1086, 1077, 32, 1089, 1087, 1072, 1089, 1080, 1073, 1086>>,
    <<1087, 1088, 1086, 1075, 1088, 1072, 1084, 1084, 1080, 1088, 1086, 1074, 1072, 1085, 1080, 1077, 32, 1101, 1090, 1086, 32, 1080, 1085, 1090, 1077, 1088, 1077, 1089, 1085, 1086>>,
    <<1082, 1086, 1076, 32, 1101, 1090, 1086, 32, 1080, 1089, 1082, 1091, 1089, 1089, 1090, 1074, 1086>>,
    <<1080, 1089, 1087, 1088, 1072, 1074, 1100, 32, 1086, 1096, 1080, 1073, 1082, 1091>>,
    <<1079, 1072, 1087, 1091, 1096, 1080, 32, 1080, 1079, 1084, 1077, 1085, 1077, 1085, 1080, 1103>>,
    <<1089, 1076, 1077, 1083, 1072, 1081, 32, 1082, 1086, 1084, 1084, 1080, 1090>>,
    <<1086, 1090, 1082, 1088, 1086, 1081, 32, 1090, 1077, 1088, 1084, 1080, 1085, 1072, 1083>>,
    <<1079, 1072, 1087, 1091, 1089, 1090, 1080, 32, 1089, 1077, 1088, 1074, 1077, 1088>>,
    <<1089, 1080, 1089, 1090, 1077, 1084, 1085, 1099, 1077, 32, 1085, 1072, 1089, 1090, 1088, 1086, 1081, 1082, 1080>>,
    <<1085, 1072, 1089, 1090, 1088, 1086, 1081, 1082, 1080, 32, 1082, 1083, 1072, 1074, 1080, 1072, 1090, 1091, 1088, 1099>>,
    <<1087, 1088, 1086, 1074, 1077, 1088, 1100, 32, 1086, 1088, 1092, 1086, 1075, 1088, 1072, 1092, 1080, 1102>>,
    <<1074, 1082, 1083, 1102, 1095, 1080, 32, 1072, 1074, 1090, 1086, 1082, 1086, 1088, 1088, 1077, 1082, 1094, 1080, 1102>>,
    <<1082, 1072, 1082, 32, 1076, 1077, 1083, 1072>>,
    <<1095, 1090, 1086, 32, 1085, 1086, 1074, 1086, 1075, 1086>>,
    <<1074, 1089, 1077, 32, 1093, 1086, 1088, 1086, 1096, 1086>>,
    <<1089, 1087, 1072, 1089, 1080, 1073, 1086, 32, 1090, 1077, 1073, 1077>>,
    <<1085, 1077, 1090, 32, 1087, 1088, 1086, 1073, 1083, 1077, 1084>>,
    <<1086, 1090, 1082, 1088, 1086, 1081, 32, 1092, 1072, 1081, 1083>>,
    <<1089, 1086, 1093, 1088, 1072, 1085, 1080, 32, 1080, 1079, 1084, 1077, 1085, 1077, 1085, 1080, 1103>>,
    <<1079, 1072, 1082, 1088, 1086, 1081, 32, 1086, 1082, 1085, 1086>>,
    <<1087, 1077, 1088, 1077, 1079, 1072, 1075, 1088, 1091, 1079, 1080, 32, 1089, 1080, 1089, 1090, 1077, 1084, 1091>>,
    <<1074, 1082, 1083, 1102, 1095, 1080, 32, 1084, 1091, 1079, 1099, 1082, 1091>>,
    <<1086, 1090, 1082, 1088, 1086, 1081, 32, 1073, 1088, 1072, 1091, 1079, 1077, 1088>>,
    <<1085, 1072, 1087, 1080, 1096, 1080, 32, 1082, 1086, 1076>>,
    <<1079, 1072, 1087, 1091, 1096, 1080, 32, 1082, 1086, 1076>>,
    <<1089, 1076, 1077, 1083, 1072, 1081, 32, 1090, 1077, 1089, 1090>>,
    <<1080, 1089, 1087, 1088, 1072, 1074, 1100, 32, 1073, 1072, 1075>>,
    <<1087, 1088, 1086, 1074, 1077, 1088, 1100, 32, 1083, 1086, 1075, 1080>>,
    <<1086, 1095, 1080, 1089, 1090, 1080, 32, 1082, 1101, 1096>>
  >>

\* ---- Data of ML/generate_expanded_dataset.py.

\* popular en list (generate_expanded_dataset.py, lines 12-34).
popular_en ==
  <<
    <<116, 104, 101>>, <<98, 101>>, <<116, 111>>, <<111, 102>>, <<97, 110, 100>>, <<97>>, <<105, 110>>,
    <<116, 104, 97, 116>>, <<104, 97, 118, 101>>, <<105>>, <<105, 116>>, <<102, 111, 114>>, <<110, 111, 116>>,
    <<111, 110>>, <<119, 105, 116, 104>>, <<104, 101>>, <<97, 115>>, <<121, 111, 117>>, <<100, 111>>,
    <<97, 116>>, <<116, 104, 105, 115>>, <<98, 117, 116>>, <<104, 105, 115>>, <<98, 121>>,
    <<102, 114, 111, 109>>, <<116, 104, 101, 121>>, <<119, 101>>, <<115, 97, 121>>, <<104, 101, 114>>,
    <<115, 104, 101>>, <<111, 114>>, <<97, 110>>, <<119, 105, 108, 108>>, <<109, 121>>, <<111, 110, 101>>,
    <<97, 108, 108>>, <<119, 111, 117, 108, 100>>, <<116, 104, 101, 114, 101>>, <<116, 104, 101, 105, 114>>,
    <<119, 104, 97, 116>>, <<115, 111>>, <<117, 112>>, <<111, 117, 116>>, <<105, 102>>,
    <<97, 98, 111, 117, 116>>, <<119, 104, 111>>, <<103, 101, 116>>, <<119, 104, 105, 99, 104>>, <<103, 111>>,
    <<109, 101>>, <<119, 104, 101, 110>>, <<109, 97, 107, 101>>, <<99, 97, 110>>, <<108, 105, 107, 101>>,
    <<116, 105, 109, 101>>, <<110, 111>>, <<106, 117, 115, 116>>, <<104, 105, 109>>, <<107, 110, 111, 119>>,
    <<116, 97, 107, 101>>, <<112, 101, 111, 112, 108, 101>>, <<105, 110, 116, 111>>, <<121, 101, 97, 114>>,
    <<121, 111, 117, 114>>, <<103, 111, 111, 100>>, <<115, 111, 109, 101>>, <<99, 111, 117, 108, 100>>,
    <<116, 104, 101, 109>>, <<115, 101, 101>>, <<111, 116, 104, 101, 114>>, <<116, 104, 97, 110>>,
    <<116, 104, 101, 110>>, <<110, 111, 119>>, <<108, 111, 111, 107>>, <<111, 110, 108, 121>>,
    <<99, 111, 109, 101>>, <<105, 116, 115>>, <<111, 118, 101, 114>>, <<116, 104, 105, 110, 107>>,
    <<97, 108, 115, 111>>, <<98, 97, 99, 107>>, <<97, 102, 116, 101, 114>>, <<117, 115, 101>>,
    <<116, 119, 111>>, <<104, 111, 119>>, <<111, 117, 114>>, <<119, 111, 114, 107>>,
    <<102, 105, 114, 115, 116>>, <<119, 101, 108, 108>>, <<119, 97, 121>>, <<101, 118, 101, 110>>,
    <<110, 101, 119>>, <<119, 97, 110, 116>>, <<98, 101, 99, 97, 117, 115, 101>>, <<97, 110, 121>>,
    <<116, 104, 101, 115, 101>>, <<103, 105, 118, 101>>, <<100, 97, 121>>, <<109, 111, 115, 116>>,
    <<117, 115>>, <<119, 111, 114, 108, 100>>, <<108, 105, 102, 101>>, <<112, 114, 111, 98, 108, 101, 109>>,
    <<109, 97, 107, 101>>, <<104, 101, 108, 112>>, <<103, 111>>, <<110, 101, 101, 100>>,
    <<102, 105, 110, 100>>, <<108, 111, 111, 107>>, <<115, 101, 101>>, <<107, 110, 111, 119>>,
    <<116, 104, 105, 110, 107>>, <<99, 111, 109, 101>>, <<119, 97, 110, 116>>, <<103, 105, 118, 101>>,
    <<117, 115, 101>>, <<102, 105, 110, 100>>, <<116, 101, 108, 108>>, <<97, 115, 107>>,
    <<119, 111, 114, 107>>, <<115, 101, 101, 109>>, <<102, 101, 101, 108>>, <<116, 114, 121>>,
    <<108, 101, 97, 118, 101>>, <<99, 97, 108, 108>>, <<103, 111, 111, 100>>, <<110, 101, 119>>,
    <<102, 105, 114, 115, 116>>, <<108, 97, 115, 116>>, <<108, 111, 110, 103>>, <<103, 114, 101, 97, 116>>,
    <<108, 105, 116, 116, 108, 101>>, <<111, 119, 110>>, <<111, 116, 104, 101, 114>>, <<111, 108, 100>>,
    <<114, 105, 103, 104, 116>>, <<98, 105, 103>>, <<104, 105, 103, 104>>,
    <<100, 105, 102, 102, 101, 114, 101, 110, 116>>, <<115, 109, 97, 108, 108>>, <<108, 97, 114, 103, 101>>,
    <<110, 101, 120, 116>>, <<101, 97, 114, 108, 121>>, <<121, 111, 117, 110, 103>>,
    <<105, 109, 112, 111, 114, 116, 97, 110, 116>>, <<102, 101, 119>>, <<112, 117, 98, 108, 105, 99>>,
    <<98, 97, 100>>, <<115, 97, 109, 101>>, <<97, 98, 108, 101>>, <<104, 111, 117, 115, 101>>,
    <<110, 117, 109, 98, 101, 114>>, <<98, 111, 121>>, <<119, 111, 114, 100>>,
    <<98, 117, 115, 105, 110, 101, 115, 115>>, <<105, 115, 115, 117, 101>>, <<115, 105, 100, 101>>,
    <<107, 105, 110, 100>>, <<104, 101, 97, 100>>, <<104, 111, 117, 115, 101>>,
    <<115, 101, 114, 118, 105, 99, 101>>, <<102, 114, 105, 101, 110, 100>>, <<102, 97, 116, 104, 101, 114>>,
    <<112, 111, 119, 101, 114>>, <<104, 111, 117, 114>>, <<103, 97, 109, 101>>, <<108, 105, 110, 101>>,
    <<101, 110, 100>>, <<109, 101, 109, 98, 101, 114>>, <<108, 97, 119>>, <<99, 97, 114>>,
    <<99, 105, 116, 121>>, <<99, 111, 109, 109, 117, 110, 105, 116, 121>>, <<110, 97, 109, 101>>,
    <<112, 114, 101, 115, 105, 100, 101, 110, 116>>, <<116, 101, 97, 109>>, <<109, 105, 110, 117, 116, 101>>,
    <<105, 100, 101, 97>>, <<107, 105, 100>>, <<98, 111, 100, 121>>,
    <<105, 110, 102, 111, 114, 109, 97, 116, 105, 111, 110>>, <<98, 97, 99, 107>>,
    <<112, 97, 114, 101, 110, 116>>, <<102, 97, 99, 101>>, <<111, 116, 104, 101, 114, 115>>,
    <<108, 101, 118, 101, 108>>, <<111, 102, 102, 105, 99, 101>>, <<100, 111, 111, 114>>,
    <<104, 101, 97, 108, 116, 104>>, <<112, 101, 114, 115, 111, 110>>, <<97, 114, 116>>, <<119, 97, 114>>,
    <<104, 105, 115, 116, 111, 114, 121>>, <<112, 97, 114, 116, 121>>, <<114, 101, 115, 117, 108, 116>>,
    <<99, 104, 97, 110, 103, 101>>, <<109, 111, 114, 110, 105, 110, 103>>, <<114, 101, 97, 115, 111, 110>>,
    <<114, 101, 115, 101, 97, 114, 99, 104>>, <<103, 105, 114, 108>>, <<103, 117, 121>>,
    <<109, 111, 109, 101, 110, 116>>, <<97, 105, 114>>, <<116, 101, 97, 99, 104, 101, 114>>,
    <<102, 111, 114, 99, 101>>, <<101, 100, 117, 99, 97, 116, 105, 111, 110>>
  >>

\* conjunctions en list (generate_expanded_dataset.py, lines 37-43).
conjunctions_en ==
  <<
    <<97, 110, 100>>, <<98, 117, 116>>, <<111, 114>>, <<110, 111, 114>>, <<102, 111, 114>>, <<121, 101, 116>>,
    <<115, 111>>, <<97, 108, 116, 104, 111, 117, 103, 104>>, <<116, 104, 111, 117, 103, 104>>,
    <<98, 101, 99, 97, 117, 115, 101>>, <<115, 105, 110, 99, 101>>, <<97, 115>>, <<105, 102>>,
    <<117, 110, 108, 101, 115, 115>>, <<117, 110, 116, 105, 108>>, <<119, 104, 105, 108, 101>>,
    <<119, 104, 101, 114, 101>>, <<97, 102, 116, 101, 114>>, <<98, 101, 102, 111, 114, 101>>,
    <<119, 104, 101, 110>>, <<119, 104, 101, 110, 101, 118, 101, 114>>,
    <<119, 104, 101, 114, 101, 118, 101, 114>>, <<119, 104, 101, 116, 104, 101, 114>>, <<116, 104, 97, 116>>,
    <<119, 104, 105, 99, 104>>, <<119, 104, 111>>, <<119, 104, 111, 109>>, <<119, 104, 111, 115, 101>>,
    <<119, 104, 97, 116>>, <<119, 104, 97, 116, 101, 118, 101, 114>>,
    <<119, 104, 105, 99, 104, 101, 118, 101, 114>>, <<98, 111, 116, 104>>, <<101, 105, 116, 104, 101, 114>>,
    <<110, 101, 105, 116, 104, 101, 114>>, <<110, 111, 116>>, <<111, 110, 108, 121>>, <<97, 108, 115, 111>>,
    <<101, 118, 101, 110>>, <<106, 117, 115, 116>>
  >>

\* short en list (generate_expanded_dataset.py, lines 46-53).
short_en ==
  <<
    <<97>>, <<105>>, <<98, 101>>, <<100, 111>>, <<103, 111>>, <<105, 115>>, <<105, 116>>, <<109, 101>>,
    <<109, 121>>, <<110, 111>>, <<111, 107>>, <<111, 110>>, <<116, 111>>, <<117, 112>>, <<117, 115>>,
    <<119, 101>>, <<97, 108, 108>>, <<97, 110, 100>>, <<97, 114, 101>>, <<98, 117, 116>>, <<99, 97, 110>>,
    <<100, 105, 100>>, <<102, 111, 114>>, <<103, 101, 116>>, <<104, 97, 100>>, <<104, 97, 115>>,
    <<104, 101, 114>>, <<104, 105, 109>>, <<104, 105, 115>>, <<104, 111, 119>>, <<105, 116, 115>>,
    <<108, 101, 116>>, <<109, 97, 121>>, <<110, 101, 119>>, <<110, 111, 119>>, <<111, 102, 102>>,
    <<111, 108, 100>>, <<111, 110, 101>>, <<111, 117, 114>>, <<111, 117, 116>>, <<111, 119, 110>>,
    <<112, 117, 116>>, <<114, 117, 110>>, <<115, 97, 119>>, <<115, 97, 121>>, <<115, 101, 101>>,
    <<115, 104, 101>>, <<115, 105, 116>>, <<116, 111, 111>>, <<116, 111, 112>>, <<116, 114, 121>>,
    <<116, 119, 111>>, <<117, 115, 101>>, <<119, 97, 115>>, <<119, 97, 121>>, <<119, 104, 111>>,
    <<119, 104, 121>>, <<121, 101, 115>>, <<121, 111, 117>>, <<116, 104, 101>>, <<110, 111, 116>>,
    <<97, 110, 121>>
  >>

\* phrases en list (generate_expanded_dataset.py, lines 56-66).
phrases_en ==
  <<
    <<104, 111, 119, 32, 97, 114, 101, 32, 121, 111, 117>>,
    <<103, 111, 111, 100, 32, 109, 111, 114, 110, 105, 110, 103>>,
    <<103, 111, 111, 100, 32, 101, 118, 101, 110, 105, 110, 103>>,
    <<116, 104, 97, 110, 107, 32, 121, 111, 117>>,
    <<121, 111, 117, 32, 97, 114, 101, 32, 119, 101, 108, 99, 111, 109, 101>>,
    <<101, 120, 99, 117, 115, 101, 32, 109, 101>>,
    <<115, 111, 114, 114, 121, 32, 97, 98, 111, 117, 116, 32, 116, 104, 97, 116>>,
    <<110, 111, 32, 112, 114, 111, 98, 108, 101, 109>>,
    <<116, 104, 97, 116, 32, 105, 115, 32, 102, 105, 110, 101>>,
    <<115, 101, 101, 32, 121, 111, 117, 32, 108, 97, 116, 101, 114>>,
    <<104, 97, 118, 101, 32, 97, 32, 110, 105, 99, 101, 32, 100, 97, 121>>,
    <<116, 97, 107, 101, 32, 99, 97, 114, 101>>, <<103, 111, 111, 100, 32, 108, 117, 99, 107>>,
    <<98, 101, 115, 116, 32, 119, 105, 115, 104, 101, 115>>, <<105, 32, 97, 109, 32, 102, 105, 110, 101>>,
    <<105, 32, 97, 109, 32, 103, 111, 111, 100>>, <<119, 104, 97, 116, 32, 105, 115, 32, 117, 112>>,
    <<110, 111, 116, 32, 109, 117, 99, 104>>, <<115, 97, 109, 101, 32, 104, 101, 114, 101>>,
    <<108, 101, 116, 32, 109, 101, 32, 107, 110, 111, 119>>,
    <<107, 101, 101, 112, 32, 105, 110, 32, 116, 111, 117, 99, 104>>,
    <<115, 116, 97, 121, 32, 115, 97, 102, 101>>, <<98, 101, 32, 99, 97, 114, 101, 102, 117, 108>>,
    <<97, 108, 108, 32, 116, 104, 101, 32, 98, 101, 115, 116>>,
    <<112, 114, 111, 103, 114, 97, 109, 109, 105, 110, 103, 32, 105, 115, 32, 102, 117, 110>>,
    <<99, 111, 100, 101, 32, 105, 115, 32, 112, 111, 101, 116, 114, 121>>,
    <<100, 101, 98, 117, 103, 32, 116, 104, 105, 115>>,
    <<102, 105, 120, 32, 116, 104, 101, 32, 98, 117, 103>>,
    <<114, 101, 108, 101, 97, 115, 101, 32, 105, 116>>,
    <<112, 117, 115, 104, 32, 116, 111, 32, 112, 114, 111, 100, 117, 99, 116, 105, 111, 110>>,
    <<109, 101, 114, 103, 101, 32, 116, 104, 101, 32, 98, 114, 97, 110, 99, 104>>,
    <<99, 111, 109, 109, 105, 116, 32, 99, 104, 97, 110, 103, 101, 115>>,
    <<99, 111, 100, 101, 32, 114, 101, 118, 105, 101, 119>>,
    <<115, 121, 115, 116, 101, 109, 32, 115, 101, 116, 116, 105, 110, 103, 115>>,
    <<112, 114, 101, 102, 101, 114, 101, 110, 99, 101, 115>>,
    <<97, 99, 99, 101, 115, 115, 32, 99, 111, 110, 116, 114, 111, 108>>,
    <<117, 115, 101, 114, 32, 112, 101, 114, 109, 105, 115, 115, 105, 111, 110, 115>>,
    <<97, 100, 109, 105, 110, 32, 114, 105, 103, 104, 116, 115>>,
    <<107, 101, 121, 98, 111, 97, 114, 100, 32, 108, 97, 121, 111, 117, 116>>,
    <<105, 110, 112, 117, 116, 32, 109, 101, 116, 104, 111, 100>>,
    <<116, 101, 120, 116, 32, 105, 110, 112, 117, 116>>,
    <<115, 112, 101, 108, 108, 32, 99, 104, 101, 99, 107, 101, 114>>,
    <<97, 117, 116, 111, 99, 111, 114, 114, 101, 99, 116>>
  >>

\* additional en list (generate_expanded_dataset.py, lines 160-206).
additional_en ==
  <<
    <<97, 112, 112, 108, 101>>, <<98, 97, 110, 97, 110, 97>>, <<111, 114, 97, 110, 103, 101>>,
    <<103, 114, 97, 112, 101>>, <<109, 97, 110, 103, 111>>, <<112, 105, 110, 101, 97, 112, 112, 108, 101>>,
    <<112, 101, 97, 99, 104>>, <<99, 111, 109, 112, 117, 116, 101, 114>>, <<108, 97, 112, 116, 111, 112>>,
    <<107, 101, 121, 98, 111, 97, 114, 100>>, <<109, 111, 117, 115, 101>>,
    <<109, 111, 110, 105, 116, 111, 114>>, <<112, 114, 105, 110, 116, 101, 114>>,
    <<115, 99, 97, 110, 110, 101, 114>>, <<105, 110, 116, 101, 114, 110, 101, 116>>, <<119, 105, 102, 105>>,
    <<98, 108, 117, 101, 116, 111, 111, 116, 104>>, <<110, 101, 116, 119, 111, 114, 107>>,
    <<115, 101, 114, 118, 101, 114>>, <<100, 97, 116, 97, 98, 97, 115, 101>>, <<99, 108, 111, 117, 100>>,
    <<115, 111, 102, 116, 119, 97, 114, 101>>, <<104, 97, 114, 100, 119, 97, 114, 101>>,
    <<112, 114, 111, 103, 114, 97, 109>>, <<99, 111, 100, 101>>, <<100, 101, 118, 101, 108, 111, 112>>,
    <<116, 101, 115, 116>>, <<100, 101, 98, 117, 103>>, <<115, 119, 105, 102, 116>>,
    <<112, 121, 116, 104, 111, 110>>, <<106, 97, 118, 97>>, <<106, 97, 118, 97, 115, 99, 114, 105, 112, 116>>,
    <<114, 117, 115, 116>>, <<103, 111>>, <<114, 117, 98, 121>>, <<112, 104, 112>>,
    <<103, 105, 116, 104, 117, 98>>, <<103, 105, 116>>, <<100, 111, 99, 107, 101, 114>>,
    <<107, 117, 98, 101, 114, 110, 101, 116, 101, 115>>, <<108, 105, 110, 117, 120>>,
    <<119, 105, 110, 100, 111, 119, 115>>, <<109, 97, 99, 111, 115>>, <<105, 111, 115>>,
    <<97, 110, 100, 114, 111, 105, 100>>, <<109, 111, 98, 105, 108, 101>>, <<119, 101, 98>>, <<97, 112, 105>>,
    <<114, 101, 115, 116>>, <<106, 115, 111, 110>>, <<120, 109, 108>>, <<104, 116, 109, 108>>,
    <<99, 115, 115>>, <<115, 101, 99, 117, 114, 105, 116, 121>>, <<112, 114, 105, 118, 97, 99, 121>>,
    <<112, 101, 114, 109, 105, 115, 115, 105, 111, 110>>, <<97, 99, 99, 101, 115, 115>>,
    <<99, 111, 110, 116, 114, 111, 108>>, <<117, 115, 101, 114>>, <<97, 100, 109, 105, 110>>,
    <<108, 111, 103, 105, 110>>, <<112, 97, 115, 115, 119, 111, 114, 100>>, <<101, 109, 97, 105, 108>>,
    <<97, 100, 100, 114, 101, 115, 115>>, <<112, 104, 111, 110, 101>>, <<99, 111, 110, 116, 97, 99, 116>>,
    <<109, 101, 115, 115, 97, 103, 101>>, <<108, 101, 109, 111, 110>>, <<108, 105, 109, 101>>,
    <<99, 104, 101, 114, 114, 121>>, <<98, 101, 114, 114, 121>>, <<109, 101, 108, 111, 110>>,
    <<107, 105, 119, 105>>, <<112, 97, 112, 97, 121, 97>>, <<99, 111, 99, 111, 110, 117, 116>>,
    <<97, 118, 111, 99, 97, 100, 111>>, <<103, 117, 97, 118, 97>>,
    <<109, 97, 110, 103, 111, 115, 116, 101, 101, 110>>,
    <<112, 97, 115, 115, 105, 111, 110, 102, 114, 117, 105, 116>>, <<116, 111, 109, 97, 116, 111>>,
    <<112, 111, 116, 97, 116, 111>>, <<99, 97, 114, 114, 111, 116>>, <<99, 117, 99, 117, 109, 98, 101, 114>>,
    <<112, 101, 112, 112, 101, 114>>, <<111, 110, 105, 111, 110>>, <<103, 97, 114, 108, 105, 99>>,
    <<98, 114, 111, 99, 99, 111, 108, 105>>, <<99, 97, 98, 98, 97, 103, 101>>,
    <<115, 112, 105, 110, 97, 99, 104>>, <<108, 101, 116, 116, 117, 99, 101>>,
    <<99, 101, 108, 101, 114, 121>>, <<98, 101, 101, 116>>, <<100, 111, 103>>, <<99, 97, 116>>,
    <<98, 105, 114, 100>>, <<102, 105, 115, 104>>, <<104, 111, 114, 115, 101>>, <<99, 111, 119>>,
    <<112, 105, 103>>, <<115, 104, 101, 101, 112>>, <<99, 104, 105, 99, 107, 101, 110>>,
    <<100, 117, 99, 107>>, <<103, 111, 111, 115, 101>>, <<114, 97, 98, 98, 105, 116>>, <<100, 101, 101, 114>>,
    <<98, 101, 97, 114>>, <<119, 111, 108, 102>>, <<102, 111, 120>>, <<114, 111, 115, 101>>,
    <<116, 117, 108, 105, 112>>, <<100, 97, 105, 115, 121>>, <<108, 105, 108, 121>>,
    <<115, 117, 110, 102, 108, 111, 119, 101, 114>>, <<111, 114, 99, 104, 105, 100>>,
    <<108, 111, 116, 117, 115>>, <<106, 97, 115, 109, 105, 110, 101>>,
    <<108, 97, 118, 101, 110, 100, 101, 114>>, <<100, 97, 110, 100, 101, 108, 105, 111, 110>>,
    <<100, 97, 102, 102, 111, 100, 105, 108>>, <<109, 97, 114, 105, 103, 111, 108, 100>>,
    <<98, 108, 111, 99, 107, 99, 104, 97, 105, 110>>,
    <<99, 114, 121, 112, 116, 111, 99, 117, 114, 114, 101, 110, 99, 121>>, <<110, 102, 116>>,
    <<109, 101, 116, 97, 118, 101, 114, 115, 101>>, <<97, 114, 116, 105, 102, 105, 99, 105, 97, 108>>,
    <<110, 101, 117, 114, 97, 108>>, <<97, 108, 103, 111, 114, 105, 116, 104, 109>>,
    <<97, 117, 116, 111, 109, 97, 116, 105, 111, 110>>, <<114, 111, 98, 111, 116>>,
    <<109, 97, 99, 104, 105, 110, 101>>, <<105, 110, 116, 101, 108, 108, 105, 103, 101, 110, 99, 101>>,
    <<108, 101, 97, 114, 110, 105, 110, 103>>, <<112, 105, 122, 122, 97>>, <<98, 117, 114, 103, 101, 114>>,
    <<115, 117, 115, 104, 105>>, <<112, 97, 115, 116, 97>>, <<110, 111, 111, 100, 108, 101>>,
    <<114, 105, 99, 101>>, <<98, 114, 101, 97, 100>>, <<99, 97, 107, 101>>, <<99, 111, 111, 107, 105, 101>>,
    <<99, 104, 111, 99, 111, 108, 97, 116, 101>>, <<99, 111, 102, 102, 101, 101>>, <<116, 101, 97>>,
    <<106, 117, 105, 99, 101>>, <<119, 97, 116, 101, 114>>, <<115, 111, 100, 97>>, <<98, 101, 101, 114>>,
    <<99, 97, 114>>, <<98, 117, 115>>, <<116, 114, 97, 105, 110>>, <<112, 108, 97, 110, 101>>,
    <<115, 104, 105, 112>>, <<98, 105, 99, 121, 99, 108, 101>>,
    <<109, 111, 116, 111, 114, 99, 121, 99, 108, 101>>, <<115, 99, 111, 111, 116, 101, 114>>,
    <<115, 117, 98, 119, 97, 121>>, <<116, 97, 120, 105>>, <<117, 98, 101, 114>>, <<116, 114, 117, 99, 107>>,
    <<118, 97, 110>>, <<98, 111, 97, 116>>, <<121, 97, 99, 104, 116>>,
    <<104, 101, 108, 105, 99, 111, 112, 116, 101, 114>>, <<115, 104, 105, 114, 116>>,
    <<112, 97, 110, 116, 115>>, <<100, 114, 101, 115, 115>>, <<115, 107, 105, 114, 116>>,
    <<106, 97, 99, 107, 101, 116>>, <<99, 111, 97, 116>>, <<115, 104, 111, 101, 115>>,
    <<98, 111, 111, 116, 115>>, <<104, 97, 116>>, <<99, 97, 112>>, <<115, 99, 97, 114, 102>>,
    <<103, 108, 111, 118, 101, 115>>, <<115, 111, 99, 107, 115>>, <<98, 101, 108, 116>>, <<116, 105, 101>>,
    <<117, 110, 105, 102, 111, 114, 109>>, <<115, 111, 99, 99, 101, 114>>,
    <<102, 111, 111, 116, 98, 97, 108, 108>>, <<98, 97, 115, 107, 101, 116, 98, 97, 108, 108>>,
    <<116, 101, 110, 110, 105, 115>>, <<118, 111, 108, 108, 101, 121, 98, 97, 108, 108>>,
    <<98, 97, 115, 101, 98, 97, 108, 108>>, <<104, 111, 99, 107, 101, 121>>, <<103, 111, 108, 102>>,
    <<115, 119, 105, 109, 109, 105, 110, 103>>, <<114, 117, 110, 110, 105, 110, 103>>,
    <<106, 117, 109, 112, 105, 110, 103>>, <<100, 97, 110, 99, 105, 110, 103>>,
    <<115, 105, 110, 103, 105, 110, 103>>, <<114, 111, 99, 107>>, <<112, 111, 112>>, <<106, 97, 122, 122>>,
    <<98, 108, 117, 101, 115>>, <<99, 108, 97, 115, 115, 105, 99, 97, 108>>,
    <<99, 111, 117, 110, 116, 114, 121>>, <<114, 97, 112>>, <<104, 105, 112, 104, 111, 112>>,
    <<101, 108, 101, 99, 116, 114, 111, 110, 105, 99>>, <<116, 101, 99, 104, 110, 111>>,
    <<104, 111, 117, 115, 101>>, <<116, 114, 97, 110, 99, 101>>, <<97, 109, 98, 105, 101, 110, 116>>,
    <<102, 111, 108, 107>>, <<114, 101, 103, 103, 97, 101>>, <<115, 117, 110, 110, 121>>,
    <<114, 97, 105, 110, 121>>, <<99, 108, 111, 117, 100, 121>>, <<119, 105, 110, 100, 121>>,
    <<115, 110, 111, 119, 121>>, <<115, 116, 111, 114, 109, 121>>, <<102, 111, 103, 103, 121>>,
    <<104, 97, 122, 121>>, <<98, 114, 101, 101, 122, 121>>, <<104, 117, 109, 105, 100>>, <<100, 114, 121>>,
    <<119, 101, 116>>, <<104, 111, 116>>, <<99, 111, 108, 100>>, <<119, 97, 114, 109>>, <<99, 111, 111, 108>>,
    <<109, 111, 114, 110, 105, 110, 103>>, <<97, 102, 116, 101, 114, 110, 111, 111, 110>>,
    <<101, 118, 101, 110, 105, 110, 103>>, <<110, 105, 103, 104, 116>>,
    <<109, 105, 100, 110, 105, 103, 104, 116>>, <<100, 97, 119, 110>>, <<100, 117, 115, 107>>,
    <<116, 119, 105, 108, 105, 103, 104, 116>>, <<115, 117, 110, 114, 105, 115, 101>>,
    <<115, 117, 110, 115, 101, 116>>, <<100, 97, 121, 108, 105, 103, 104, 116>>,
    <<100, 97, 114, 107, 110, 101, 115, 115>>, <<115, 117, 110, 115, 104, 105, 110, 101>>,
    <<109, 111, 111, 110, 108, 105, 103, 104, 116>>
  >>

\* popular ru list (generate_expanded_dataset.py, lines 69-90).
popular_ru ==
  <<
    <<1080>>, <<1074>>, <<1085, 1077>>, <<1085, 1072>>, <<1103>>, <<1073, 1099, 1090, 1100>>, <<1086, 1085>>,
    <<1095, 1090, 1086>>, <<1101, 1090, 1086>>, <<1074, 1077, 1089, 1100>>, <<1089>>, <<1072>>,
    <<1087, 1086>>, <<1082>>, <<1085, 1086>>, <<1086, 1085, 1080>>, <<1084, 1099>>, <<1090, 1099>>,
    <<1074, 1099>>, <<1082, 1086, 1090, 1086, 1088, 1099, 1081>>, <<1074, 1088, 1077, 1084, 1103>>,
    <<1075, 1086, 1076>>, <<1075, 1086, 1074, 1086, 1088, 1080, 1090, 1100>>,
    <<1076, 1077, 1083, 1072, 1090, 1100>>, <<1089, 1077, 1073, 1103>>,
    <<1095, 1077, 1083, 1086, 1074, 1077, 1082>>, <<1088, 1072, 1073, 1086, 1090, 1072>>,
    <<1088, 1091, 1082, 1072>>, <<1078, 1080, 1079, 1085, 1100>>, <<1076, 1077, 1085, 1100>>,
    <<1085, 1086, 1074, 1099, 1081>>, <<1075, 1083, 1072, 1079>>, <<1089, 1090, 1072, 1090, 1100>>,
    <<1076, 1086, 1084>>, <<1083, 1080, 1094, 1086>>, <<1076, 1088, 1091, 1075>>,
    <<1089, 1083, 1091, 1095, 1072, 1081>>, <<1075, 1086, 1088, 1086, 1076>>, <<1084, 1086, 1095, 1100>>,
    <<1093, 1086, 1090, 1077, 1090, 1100>>, <<1074, 1086, 1076, 1072>>, <<1086, 1075, 1086, 1085, 1100>>,
    <<1079, 1077, 1084, 1083, 1103>>, <<1085, 1077, 1073, 1086>>, <<1076, 1086, 1088, 1086, 1075, 1072>>,
    <<1075, 1086, 1083, 1086, 1074, 1072>>, <<1089, 1080, 1083, 1072>>, <<1084, 1086, 1088, 1077>>,
    <<1074, 1077, 1090, 1077, 1088>>, <<1087, 1086, 1083, 1077>>, <<1075, 1086, 1088, 1072>>,
    <<1089, 1074, 1077, 1090>>, <<1085, 1086, 1095, 1100>>, <<1091, 1090, 1088, 1086>>,
    <<1074, 1077, 1095, 1077, 1088>>, <<1089, 1086, 1083, 1085, 1094, 1077>>, <<1083, 1091, 1085, 1072>>,
    <<1079, 1074, 1077, 1079, 1076, 1072>>, <<1076, 1086, 1078, 1076, 1100>>, <<1089, 1085, 1077, 1075>>,
    <<1089, 1077, 1088, 1076, 1094, 1077>>, <<1088, 1091, 1082, 1072>>, <<1085, 1086, 1075, 1072>>,
    <<1075, 1091, 1073, 1072>>, <<1091, 1093, 1086>>, <<1085, 1086, 1089>>, <<1074, 1086, 1083, 1086, 1089>>,
    <<1082, 1086, 1078, 1072>>, <<1082, 1088, 1086, 1074, 1100>>, <<1082, 1086, 1089, 1090, 1100>>,
    <<1084, 1086, 1079, 1075>>, <<1076, 1091, 1096, 1072>>, <<1090, 1077, 1083, 1086>>, <<1088, 1086, 1090>>,
    <<1079, 1091, 1073>>, <<1103, 1079, 1099, 1082>>, <<1089, 1086, 1085>>,
    <<1073, 1077, 1078, 1072, 1090, 1100>>, <<1080, 1076, 1090, 1080>>, <<1077, 1093, 1072, 1090, 1100>>,
    <<1083, 1077, 1090, 1077, 1090, 1100>>, <<1087, 1083, 1099, 1090, 1100>>,
    <<1088, 1072, 1089, 1090, 1080>>, <<1087, 1072, 1089, 1090, 1100>>,
    <<1089, 1090, 1086, 1103, 1090, 1100>>, <<1089, 1080, 1076, 1077, 1090, 1100>>,
    <<1083, 1077, 1078, 1072, 1090, 1100>>, <<1089, 1087, 1072, 1090, 1100>>, <<1077, 1089, 1090, 1100>>,
    <<1087, 1080, 1090, 1100>>, <<1074, 1080, 1076, 1077, 1090, 1100>>,
    <<1089, 1083, 1099, 1096, 1072, 1090, 1100>>, <<1079, 1085, 1072, 1090, 1100>>,
    <<1076, 1091, 1084, 1072, 1090, 1100>>, <<1087, 1086, 1085, 1080, 1084, 1072, 1090, 1100>>,
    <<1083, 1102, 1073, 1080, 1090, 1100>>, <<1085, 1077, 1085, 1072, 1074, 1080, 1076, 1077, 1090, 1100>>,
    <<1093, 1086, 1090, 1077, 1090, 1100>>, <<1084, 1086, 1095, 1100>>,
    <<1076, 1086, 1083, 1078, 1077, 1085>>, <<1085, 1091, 1078, 1085, 1086>>, <<1085, 1072, 1076, 1086>>,
    <<1084, 1086, 1078, 1085, 1086>>, <<1085, 1077, 1083, 1100, 1079, 1103>>,
    <<1074, 1072, 1078, 1085, 1086>>, <<1093, 1086, 1088, 1086, 1096, 1086>>,
    <<1087, 1083, 1086, 1093, 1086>>, <<1073, 1086, 1083, 1100, 1096, 1086, 1081>>,
    <<1084, 1072, 1083, 1077, 1085, 1100, 1082, 1080, 1081>>, <<1076, 1083, 1080, 1085, 1085, 1099, 1081>>,
    <<1082, 1086, 1088, 1086, 1090, 1082, 1080, 1081>>, <<1074, 1099, 1089, 1086, 1082, 1080, 1081>>,
    <<1085, 1080, 1079, 1082, 1080, 1081>>, <<1073, 1099, 1089, 1090, 1088, 1099, 1081>>,
    <<1084, 1077, 1076, 1083, 1077, 1085, 1085, 1099, 1081>>,
    <<1082, 1088, 1072, 1089, 1080, 1074, 1099, 1081>>,
    <<1091, 1088, 1086, 1076, 1083, 1080, 1074, 1099, 1081>>, <<1091, 1084, 1085, 1099, 1081>>,
    <<1075, 1083, 1091, 1087, 1099, 1081>>, <<1076, 1086, 1073, 1088, 1099, 1081>>,
    <<1079, 1083, 1086, 1081>>, <<1089, 1084, 1077, 1083, 1099, 1081>>,
    <<1090, 1088, 1091, 1089, 1083, 1080, 1074, 1099, 1081>>, <<1093, 1088, 1072, 1073, 1088, 1099, 1081>>,
    <<1089, 1080, 1083, 1100, 1085, 1099, 1081>>, <<1089, 1083, 1072, 1073, 1099, 1081>>,
    <<1079, 1076, 1086, 1088, 1086, 1074, 1099, 1081>>, <<1073, 1086, 1083, 1100, 1085, 1086, 1081>>,
    <<1073, 1086, 1075, 1072, 1090, 1099, 1081>>, <<1073, 1077, 1076, 1085, 1099, 1081>>,
    <<1084, 1086, 1083, 1086, 1076, 1086, 1081>>, <<1089, 1090, 1072, 1088, 1099, 1081>>,
    <<1078, 1080, 1074, 1086, 1081>>, <<1084, 1105, 1088, 1090, 1074, 1099, 1081>>,
    <<1075, 1086, 1088, 1103, 1095, 1080, 1081>>, <<1093, 1086, 1083, 1086, 1076, 1085, 1099, 1081>>,
    <<1090, 1105, 1087, 1083, 1099, 1081>>, <<1087, 1088, 1086, 1093, 1083, 1072, 1076, 1085, 1099, 1081>>,
    <<1089, 1091, 1093, 1086, 1081>>, <<1084, 1086, 1082, 1088, 1099, 1081>>,
    <<1095, 1080, 1089, 1090, 1099, 1081>>, <<1075, 1088, 1103, 1079, 1085, 1099, 1081>>,
    <<1089, 1074, 1077, 1090, 1083, 1099, 1081>>, <<1090, 1105, 1084, 1085, 1099, 1081>>,
    <<1103, 1088, 1082, 1080, 1081>>, <<1090, 1091, 1089, 1082, 1083, 1099, 1081>>,
    <<1073, 1077, 1083, 1099, 1081>>, <<1095, 1105, 1088, 1085, 1099, 1081>>,
    <<1082, 1088, 1072, 1089, 1085, 1099, 1081>>, <<1089, 1080, 1085, 1080, 1081>>,
    <<1079, 1077, 1083, 1105, 1085, 1099, 1081>>, <<1078, 1105, 1083, 1090, 1099, 1081>>,
    <<1086, 1088, 1072, 1085, 1078, 1077, 1074, 1099, 1081>>,
    <<1092, 1080, 1086, 1083, 1077, 1090, 1086, 1074, 1099, 1081>>
  >>

\* conjunctions ru list (generate_expanded_dataset.py, lines 93-99).
conjunctions_ru ==
  <<
    <<1080>>, <<1072>>, <<1085, 1086>>, <<1080, 1083, 1080>>, <<1086, 1076, 1085, 1072, 1082, 1086>>,
    <<1090, 1077, 1084>>, <<1085, 1077>>, <<1084, 1077, 1085, 1077, 1077>>, <<1078, 1077>>,
    <<1077, 1089, 1083, 1080>>, <<1082, 1086, 1075, 1076, 1072>>, <<1087, 1086, 1082, 1072>>,
    <<1087, 1086, 1089, 1082, 1086, 1083, 1100, 1082, 1091>>, <<1090, 1072, 1082>>, <<1082, 1072, 1082>>,
    <<1073, 1091, 1076, 1090, 1086>>, <<1095, 1090, 1086>>, <<1095, 1090, 1086, 1073, 1099>>,
    <<1079, 1072, 1095, 1077, 1084>>, <<1087, 1086, 1090, 1086, 1084, 1091>>, <<1095, 1090, 1086>>,
    <<1087, 1086, 1101, 1090, 1086, 1084, 1091>>, <<1086, 1090, 1095, 1077, 1075, 1086>>,
    <<1093, 1086, 1090, 1103>>, <<1085, 1077, 1089, 1084, 1086, 1090, 1088, 1103>>, <<1085, 1072>>,
    <<1090, 1086>>, <<1083, 1080, 1073, 1086>>, <<1085, 1080>>, <<1080, 1085, 1072, 1095, 1077>>,
    <<1074, 1087, 1088, 1086, 1095, 1077, 1084>>, <<1084, 1077, 1078, 1076, 1091>>, <<1090, 1077, 1084>>,
    <<1085, 1077>>, <<1084, 1077, 1085, 1077, 1077>>, <<1077, 1089, 1083, 1080>>, <<1083, 1080>>,
    <<1077, 1078, 1077, 1083, 1080>>, <<1082, 1086, 1083, 1100>>, <<1087, 1091, 1089, 1090, 1100>>,
    <<1088, 1072, 1079>>, <<1093, 1086, 1090, 1100>>, <<1093, 1086, 1090, 1103>>, <<1091, 1078>>
  >>

\* short ru list (generate_expanded_dataset.py, lines 102-109).
short_ru ==
  <<
    <<1072>>, <<1080>>, <<1086>>, <<1091>>, <<1103>>, <<1102>>, <<1101>>, <<1077>>, <<1105>>, <<1098>>,
    <<1100>>, <<1073, 1099>>, <<1078, 1077>>, <<1083, 1080>>, <<1085, 1086>>, <<1085, 1077>>, <<1085, 1072>>,
    <<1085, 1077, 1090>>, <<1086, 1085, 1072>>, <<1086, 1085, 1072>>, <<1086, 1085>>, <<1090, 1086>>,
    <<1091>>, <<1091, 1078, 1077>>, <<1103>>, <<1074, 1089, 1077>>, <<1076, 1083, 1103>>,
    <<1082, 1072, 1082>>, <<1084, 1086, 1081>>, <<1085, 1072, 1096>>, <<1089, 1074, 1086, 1081>>,
    <<1090, 1072, 1082, 1086, 1081>>, <<1101, 1090, 1086, 1090>>, <<1090, 1086, 1090>>, <<1095, 1090, 1086>>,
    <<1101, 1090, 1086>>, <<1075, 1086, 1076>>, <<1076, 1077, 1085, 1100>>, <<1085, 1086, 1095, 1100>>,
    <<1084, 1080, 1088>>, <<1076, 1086, 1084>>, <<1074, 1086, 1090>>, <<1090, 1091, 1090>>,
    <<1088, 1072, 1079>>, <<1076, 1074, 1072>>, <<1090, 1088, 1080>>, <<1095, 1091, 1090, 1100>>,
    <<1083, 1080, 1096, 1100>>, <<1084, 1085, 1086, 1075, 1086>>, <<1085, 1072, 1076, 1086>>,
    <<1085, 1091, 1078, 1085, 1086>>, <<1084, 1086, 1078, 1085, 1086>>, <<1074, 1077, 1089, 1100>>,
    <<1074, 1077, 1089, 1100>>, <<1074, 1077, 1089, 1100>>
  >>

\* phrases ru list (generate_expanded_dataset.py, lines 112-124).
phrases_ru ==
  <<
    <<1076, 1086, 1073, 1088, 1086, 1077, 32, 1091, 1090, 1088, 1086>>,
    <<1093, 1086, 1088, 1086, 1096, 1077, 1075, 1086, 32, 1076, 1085, 1103>>,
    <<1091, 1074, 1080, 1076, 1080, 1084, 1089, 1103, 32, 1087, 1086, 1079, 1078, 1077>>,
    <<1073, 1086, 1083, 1100, 1096, 1086, 1077, 32, 1089, 1087, 1072, 1089, 1080, 1073, 1086>>,
    <<1080, 1079, 1074, 1080, 1085, 1080, 32, 1087, 1086, 1078, 1072, 1083, 1091, 1081, 1089, 1090, 1072>>,
    <<1085, 1077, 1090, 32, 1087, 1088, 1086, 1073, 1083, 1077, 1084>>,
    <<1101, 1090, 1086, 32, 1087, 1088, 1072, 1074, 1080, 1083, 1100, 1085, 1086>>,
    <<1103, 32, 1074, 32, 1087, 1086, 1088, 1103, 1076, 1082, 1077>>,
    <<1095, 1090, 1086, 32, 1085, 1086, 1074, 1086, 1075, 1086>>,
    <<1085, 1080, 1095, 1077, 1075, 1086, 32, 1086, 1089, 1086, 1073, 1077, 1085, 1085, 1086, 1075, 1086>>,
    <<1082, 1072, 1082, 32, 1074, 1089, 1077, 1075, 1076, 1072>>,
    <<1074, 1089, 1077, 32, 1093, 1086, 1088, 1086, 1096, 1086>>,
    <<1103, 1079, 1099, 1082, 32, 1087, 1088, 1086, 1075, 1088, 1072, 1084, 1084, 1080, 1088, 1086, 1074, 1072, 1085, 1080, 1103>>,
    <<1088, 1072, 1079, 1088, 1072, 1073, 1086, 1090, 1082, 1072, 32, 1087, 1088, 1086, 1075, 1088, 1072, 1084, 1084, 1085, 1086, 1075, 1086, 32, 1086, 1073, 1077, 1089, 1087, 1077, 1095, 1077, 1085, 1080, 1103>>,
    <<1084, 1072, 1096, 1080, 1085, 1085, 1086, 1077, 32, 1086, 1073, 1091, 1095, 1077, 1085, 1080, 1077>>,
    <<1080, 1089, 1082, 1091, 1089, 1089, 1090, 1074, 1077, 1085, 1085, 1099, 1081, 32, 1080, 1085, 1090, 1077, 1083, 1083, 1077, 1082, 1090>>,
    <<1085, 1072, 1091, 1082, 1072, 32, 1086, 32, 1076, 1072, 1085, 1085, 1099, 1093>>,
    <<1074, 1077, 1073, 32, 1088, 1072, 1079, 1088, 1072, 1073, 1086, 1090, 1082, 1072>>,
    <<1084, 1086, 1073, 1080, 1083, 1100, 1085, 1086, 1077, 32, 1087, 1088, 1080, 1083, 1086, 1078, 1077, 1085, 1080, 1077>>,
    <<1087, 1086, 1083, 1100, 1079, 1086, 1074, 1072, 1090, 1077, 1083, 1100, 1089, 1082, 1080, 1081, 32, 1080, 1085, 1090, 1077, 1088, 1092, 1077, 1081, 1089>>,
    <<1087, 1086, 1083, 1100, 1079, 1086, 1074, 1072, 1090, 1077, 1083, 1100, 1089, 1082, 1080, 1081, 32, 1086, 1087, 1099, 1090>>,
    <<1086, 1087, 1077, 1088, 1072, 1094, 1080, 1086, 1085, 1085, 1072, 1103, 32, 1089, 1080, 1089, 1090, 1077, 1084, 1072>>,
    <<1080, 1085, 1092, 1086, 1088, 1084, 1072, 1090, 1080, 1082, 1072>>,
    <<1080, 1085, 1092, 1086, 1088, 1084, 1072, 1094, 1080, 1086, 1085, 1085, 1099, 1077, 32, 1090, 1077, 1093, 1085, 1086, 1083, 1086, 1075, 1080, 1080>>,
    <<1073, 1077, 1079, 1086, 1087, 1072, 1089, 1085, 1086, 1089, 1090, 1100, 32, 1089, 1077, 1090, 1080>>,
    <<1086, 1073, 1083, 1072, 1095, 1085, 1099, 1077, 32, 1074, 1099, 1095, 1080, 1089, 1083, 1077, 1085, 1080, 1103>>,
    <<1091, 1087, 1088, 1072, 1074, 1083, 1077, 1085, 1080, 1077, 32, 1073, 1072, 1079, 1072, 1084, 1080, 32, 1076, 1072, 1085, 1085, 1099, 1093>>,
    <<1089, 1080, 1089, 1090, 1077, 1084, 1085, 1072, 1103, 32, 1072, 1088, 1093, 1080, 1090, 1077, 1082, 1090, 1091, 1088, 1072>>,
    <<1088, 1077, 1074, 1100, 1102, 32, 1082, 1086, 1076, 1072>>,
    <<1082, 1086, 1085, 1090, 1088, 1086, 1083, 1100, 32, 1074, 1077, 1088, 1089, 1080, 1081>>,
    <<1085, 1077, 1087, 1088, 1077, 1088, 1099, 1074, 1085, 1072, 1103, 32, 1080, 1085, 1090, 1077, 1075, 1088, 1072, 1094, 1080, 1103>>,
    <<1092, 1088, 1077, 1081, 1084, 1074, 1086, 1088, 1082, 32, 1090, 1077, 1089, 1090, 1080, 1088, 1086, 1074, 1072, 1085, 1080, 1103>>,
    <<1080, 1085, 1089, 1090, 1088, 1091, 1084, 1077, 1085, 1090, 32, 1086, 1090, 1083, 1072, 1076, 1082, 1080>>,
    <<1089, 1088, 1077, 1076, 1072, 32, 1088, 1072, 1079, 1088, 1072, 1073, 1086, 1090, 1082, 1080>>,
    <<1089, 1077, 1088, 1074, 1077, 1088, 32, 1076, 1083, 1103, 32, 1087, 1088, 1086, 1076, 1072, 1082, 1096, 1077, 1085, 1072>>
  >>

\* additional ru list (generate_expanded_dataset.py, lines 229-275).
additional_ru ==
  <<
    <<1103, 1073, 1083, 1086, 1082, 1086>>, <<1073, 1072, 1085, 1072, 1085>>,
    <<1072, 1087, 1077, 1083, 1100, 1089, 1080, 1085>>, <<1074, 1080, 1085, 1086, 1075, 1088, 1072, 1076>>,
    <<1084, 1072, 1085, 1075, 1086>>, <<1072, 1085, 1072, 1085, 1072, 1089>>,
    <<1087, 1077, 1088, 1089, 1080, 1082>>, <<1082, 1086, 1084, 1087, 1100, 1102, 1090, 1077, 1088>>,
    <<1085, 1086, 1091, 1090, 1073, 1091, 1082>>,
    <<1082, 1083, 1072, 1074, 1080, 1072, 1090, 1091, 1088, 1072>>, <<1084, 1099, 1096, 1100>>,
    <<1084, 1086, 1085, 1080, 1090, 1086, 1088>>, <<1087, 1088, 1080, 1085, 1090, 1077, 1088>>,
    <<1089, 1082, 1072, 1085, 1077, 1088>>, <<1080, 1085, 1090, 1077, 1088, 1085, 1077, 1090>>,
    <<1074, 1072, 1081, 1092, 1072, 1081>>, <<1073, 1083, 1102, 1090, 1091, 1089>>,
    <<1089, 1077, 1090, 1100>>, <<1089, 1077, 1088, 1074, 1077, 1088>>,
    <<1073, 1072, 1079, 1072, 32, 1076, 1072, 1085, 1085, 1099, 1093>>,
    <<1086, 1073, 1083, 1072, 1082, 1086>>, <<1087, 1088, 1086, 1075, 1088, 1072, 1084, 1084, 1072>>,
    <<1082, 1086, 1076>>, <<1088, 1072, 1079, 1088, 1072, 1073, 1086, 1090, 1082, 1072>>,
    <<1090, 1077, 1089, 1090>>, <<1086, 1090, 1083, 1072, 1076, 1082, 1072>>,
    <<1089, 1074, 1080, 1092, 1090>>, <<1087, 1080, 1090, 1086, 1085>>, <<1076, 1078, 1072, 1074, 1072>>,
    <<1076, 1078, 1072, 1074, 1072, 1089, 1082, 1088, 1080, 1087, 1090>>, <<1088, 1072, 1089, 1090>>,
    <<1075, 1086>>, <<1088, 1091, 1073, 1080>>, <<1087, 1093, 1087>>, <<1075, 1080, 1090, 1093, 1072, 1073>>,
    <<1075, 1080, 1090>>, <<1076, 1086, 1082, 1077, 1088>>,
    <<1082, 1091, 1073, 1077, 1088, 1085, 1077, 1090, 1077, 1089>>, <<1083, 1080, 1085, 1091, 1082, 1089>>,
    <<1074, 1080, 1085, 1076, 1086, 1091, 1089>>, <<1084, 1072, 1082, 1086, 1089>>,
    <<1072, 1081, 1086, 1089>>, <<1072, 1085, 1076, 1088, 1086, 1080, 1076>>,
    <<1084, 1086, 1073, 1080, 1083, 1072>>, <<1074, 1077, 1073>>, <<1072, 1087, 1080>>,
    <<1088, 1077, 1089, 1090>>, <<1076, 1078, 1077, 1081, 1089, 1086, 1085>>,
    <<1101, 1082, 1089, 1101, 1084, 1101, 1083, 1100>>, <<1093, 1090, 1084, 1083>>, <<1094, 1089, 1089>>,
    <<1073, 1077, 1079, 1086, 1087, 1072, 1089, 1085, 1086, 1089, 1090, 1100>>,
    <<1082, 1086, 1085, 1092, 1080, 1076, 1077, 1085, 1094, 1080, 1072, 1083, 1100, 1085, 1086, 1089, 1090, 1100>>,
    <<1087, 1088, 1072, 1074, 1072>>, <<1076, 1086, 1089, 1090, 1091, 1087>>,
    <<1082, 1086, 1085, 1090, 1088, 1086, 1083, 1100>>,
    <<1087, 1086, 1083, 1100, 1079, 1086, 1074, 1072, 1090, 1077, 1083, 1100>>,
    <<1072, 1076, 1084, 1080, 1085>>, <<1083, 1086, 1075, 1080, 1085>>,
    <<1087, 1072, 1088, 1086, 1083, 1100>>, <<1087, 1086, 1095, 1090, 1072>>,
    <<1072, 1076, 1088, 1077, 1089>>, <<1090, 1077, 1083, 1077, 1092, 1086, 1085>>,
    <<1082, 1086, 1085, 1090, 1072, 1082, 1090>>, <<1089, 1086, 1086, 1073, 1097, 1077, 1085, 1080, 1077>>,
    <<1083, 1080, 1084, 1086, 1085>>, <<1083, 1072, 1081, 1084>>, <<1074, 1080, 1096, 1085, 1103>>,
    <<1103, 1075, 1086, 1076, 1082, 1072>>, <<1076, 1099, 1085, 1103>>, <<1082, 1080, 1074, 1080>>,
    <<1087, 1072, 1087, 1072, 1081, 1103>>, <<1082, 1086, 1082, 1086, 1089>>,
    <<1072, 1074, 1086, 1082, 1072, 1076, 1086>>, <<1075, 1091, 1072, 1074, 1072>>,
    <<1084, 1072, 1085, 1075, 1086, 1089, 1090, 1080, 1085>>,
    <<1084, 1072, 1088, 1072, 1082, 1091, 1081, 1103>>, <<1090, 1086, 1084, 1072, 1090>>,
    <<1082, 1072, 1088, 1090, 1086, 1092, 1077, 1083, 1100>>, <<1084, 1086, 1088, 1082, 1086, 1074, 1100>>,
    <<1086, 1075, 1091, 1088, 1077, 1094>>, <<1087, 1077, 1088, 1077, 1094>>, <<1083, 1091, 1082>>,
    <<1095, 1077, 1089, 1085, 1086, 1082>>, <<1073, 1088, 1086, 1082, 1082, 1086, 1083, 1080>>,
    <<1082, 1072, 1087, 1091, 1089, 1090, 1072>>, <<1096, 1087, 1080, 1085, 1072, 1090>>,
    <<1089, 1072, 1083, 1072, 1090>>, <<1089, 1077, 1083, 1100, 1076, 1077, 1088, 1077, 1081>>,
    <<1089, 1074, 1105, 1082, 1083, 1072>>, <<1089, 1086, 1073, 1072, 1082, 1072>>,
    <<1082, 1086, 1096, 1082, 1072>>, <<1087, 1090, 1080, 1094, 1072>>, <<1088, 1099, 1073, 1072>>,
    <<1083, 1086, 1096, 1072, 1076, 1100>>, <<1082, 1086, 1088, 1086, 1074, 1072>>,
    <<1089, 1074, 1080, 1085, 1100, 1103>>, <<1086, 1074, 1094, 1072>>,
    <<1082, 1091, 1088, 1080, 1094, 1072>>, <<1091, 1090, 1082, 1072>>, <<1075, 1091, 1089, 1100>>,
    <<1082, 1088, 1086, 1083, 1080, 1082>>, <<1086, 1083, 1077, 1085, 1100>>,
    <<1084, 1077, 1076, 1074, 1077, 1076, 1100>>, <<1074, 1086, 1083, 1082>>, <<1083, 1080, 1089, 1072>>,
    <<1088, 1086, 1079, 1072>>, <<1090, 1102, 1083, 1100, 1087, 1072, 1085>>,
    <<1084, 1072, 1088, 1075, 1072, 1088, 1080, 1090, 1082, 1072>>, <<1083, 1080, 1083, 1080, 1103>>,
    <<1087, 1086, 1076, 1089, 1086, 1083, 1085, 1091, 1093>>, <<1086, 1088, 1093, 1080, 1076, 1077, 1103>>,
    <<1083, 1086, 1090, 1086, 1089>>, <<1078, 1072, 1089, 1084, 1080, 1085>>,
    <<1083, 1072, 1074, 1072, 1085, 1076, 1072>>, <<1086, 1076, 1091, 1074, 1072, 1085, 1095, 1080, 1082>>,
    <<1085, 1072, 1088, 1094, 1080, 1089, 1089>>, <<1073, 1072, 1088, 1093, 1072, 1090, 1094, 1099>>,
    <<1073, 1083, 1086, 1082, 1095, 1077, 1081, 1085>>,
    <<1082, 1088, 1080, 1087, 1090, 1086, 1074, 1072, 1083, 1102, 1090, 1072>>, <<1085, 1092, 1090>>,
    <<1084, 1077, 1090, 1072, 1074, 1089, 1077, 1083>>,
    <<1080, 1089, 1082, 1091, 1089, 1089, 1090, 1074, 1077, 1085, 1085, 1099, 1081>>,
    <<1085, 1077, 1081, 1088, 1086, 1089, 1077, 1090, 1100>>,
    <<1072, 1083, 1075, 1086, 1088, 1080, 1090, 1084>>,
    <<1072, 1074, 1090, 1086, 1084, 1072, 1090, 1080, 1079, 1072, 1094, 1080, 1103>>,
    <<1088, 1086, 1073, 1086, 1090>>, <<1084, 1072, 1096, 1080, 1085, 1072>>,
    <<1080, 1085, 1090, 1077, 1083, 1083, 1077, 1082, 1090>>,
    <<1086, 1073, 1091, 1095, 1077, 1085, 1080, 1077>>, <<1087, 1080, 1094, 1094, 1072>>,
    <<1073, 1091, 1088, 1075, 1077, 1088>>, <<1089, 1091, 1096, 1080>>, <<1087, 1072, 1089, 1090, 1072>>,
    <<1083, 1072, 1087, 1096, 1072>>, <<1088, 1080, 1089>>, <<1093, 1083, 1077, 1073>>,
    <<1090, 1086, 1088, 1090>>, <<1087, 1077, 1095, 1077, 1085, 1100, 1077>>,
    <<1096, 1086, 1082, 1086, 1083, 1072, 1076>>, <<1082, 1086, 1092, 1077>>, <<1095, 1072, 1081>>,
    <<1089, 1086, 1082>>, <<1074, 1086, 1076, 1072>>,
    <<1075, 1072, 1079, 1080, 1088, 1086, 1074, 1082, 1072>>, <<1087, 1080, 1074, 1086>>,
    <<1084, 1072, 1096, 1080, 1085, 1072>>, <<1072, 1074, 1090, 1086, 1073, 1091, 1089>>,
    <<1087, 1086, 1077, 1079, 1076>>, <<1089, 1072, 1084, 1086, 1083, 1105, 1090>>,
    <<1082, 1086, 1088, 1072, 1073, 1083, 1100>>, <<1074, 1077, 1083, 1086, 1089, 1080, 1087, 1077, 1076>>,
    <<1084, 1086, 1090, 1086, 1094, 1080, 1082, 1083>>, <<1089, 1082, 1091, 1090, 1077, 1088>>,
    <<1084, 1077, 1090, 1088, 1086>>, <<1090, 1072, 1082, 1089, 1080>>, <<1091, 1073, 1077, 1088>>,
    <<1075, 1088, 1091, 1079, 1086, 1074, 1080, 1082>>, <<1092, 1091, 1088, 1075, 1086, 1085>>,
    <<1083, 1086, 1076, 1082, 1072>>, <<1103, 1093, 1090, 1072>>,
    <<1074, 1077, 1088, 1090, 1086, 1083, 1105, 1090>>, <<1088, 1091, 1073, 1072, 1096, 1082, 1072>>,
    <<1096, 1090, 1072, 1085, 1099>>, <<1087, 1083, 1072, 1090, 1100, 1077>>, <<1102, 1073, 1082, 1072>>,
    <<1087, 1072, 1083, 1100, 1090, 1086>>, <<1087, 1080, 1076, 1078, 1072, 1082>>,
    <<1090, 1091, 1092, 1083, 1080>>, <<1089, 1072, 1087, 1086, 1075, 1080>>,
    <<1096, 1083, 1103, 1087, 1072>>, <<1082, 1077, 1087, 1082, 1072>>, <<1096, 1072, 1088, 1092>>,
    <<1087, 1077, 1088, 1095, 1072, 1090, 1082, 1080>>, <<1085, 1086, 1089, 1082, 1080>>,
    <<1088, 1077, 1084, 1077, 1085, 1100>>, <<1075, 1072, 1083, 1089, 1090, 1091, 1082>>,
    <<1091, 1085, 1080, 1092, 1086, 1088, 1084, 1072>>, <<1092, 1091, 1090, 1073, 1086, 1083>>,
    <<1073, 1072, 1089, 1082, 1077, 1090, 1073, 1086, 1083>>,
    <<1074, 1086, 1083, 1077, 1081, 1073, 1086, 1083>>, <<1090, 1077, 1085, 1085, 1080, 1089>>,
    <<1087, 1083, 1072, 1074, 1072, 1085, 1080, 1077>>, <<1073, 1077, 1075>>,
    <<1087, 1088, 1099, 1078, 1082, 1080>>, <<1090, 1072, 1085, 1094, 1099>>,
    <<1087, 1077, 1085, 1080, 1077>>, <<1093, 1086, 1082, 1082, 1077, 1081>>,
    <<1075, 1086, 1083, 1100, 1092>>, <<1073, 1086, 1082, 1089>>, <<1073, 1086, 1088, 1100, 1073, 1072>>,
    <<1075, 1080, 1084, 1085, 1072, 1089, 1090, 1080, 1082, 1072>>, <<1088, 1086, 1082>>,
    <<1087, 1086, 1087>>, <<1076, 1078, 1072, 1079>>, <<1073, 1083, 1102, 1079>>,
    <<1082, 1083, 1072, 1089, 1089, 1080, 1082, 1072>>, <<1082, 1072, 1085, 1090, 1088, 1080>>,
    <<1088, 1101, 1087>>, <<1093, 1080, 1087, 1093, 1086, 1087>>,
    <<1101, 1083, 1077, 1082, 1090, 1088, 1086, 1085, 1080, 1082, 1072>>, <<1090, 1077, 1093, 1085, 1086>>,
    <<1093, 1072, 1091, 1089>>, <<1090, 1088, 1072, 1085, 1089>>,
    <<1101, 1084, 1073, 1080, 1077, 1085, 1090>>, <<1092, 1086, 1083, 1082>>,
    <<1088, 1077, 1075, 1075, 1080>>, <<1089, 1086, 1083, 1085, 1077, 1095, 1085, 1086>>,
    <<1076, 1086, 1078, 1076, 1083, 1080, 1074, 1086>>, <<1086, 1073, 1083, 1072, 1095, 1085, 1086>>,
    <<1074, 1077, 1090, 1088, 1077, 1085, 1086>>, <<1089, 1085, 1077, 1078, 1085, 1086>>,
    <<1096, 1090, 1086, 1088, 1084, 1080, 1090>>, <<1090, 1091, 1084, 1072, 1085, 1085, 1086>>,
    <<1076, 1099, 1084, 1085, 1086>>, <<1074, 1077, 1090, 1088, 1077, 1085, 1086>>,
    <<1074, 1083, 1072, 1078, 1085, 1086>>, <<1089, 1091, 1093, 1086>>, <<1084, 1086, 1082, 1088, 1086>>,
    <<1078, 1072, 1088, 1082, 1086>>, <<1093, 1086, 1083, 1086, 1076, 1085, 1086>>,
    <<1090, 1077, 1087, 1083, 1086>>, <<1087, 1088, 1086, 1093, 1083, 1072, 1076, 1085, 1086>>,
    <<1091, 1090, 1088, 1086>>, <<1076, 1077, 1085, 1100>>, <<1074, 1077, 1095, 1077, 1088>>,
    <<1085, 1086, 1095, 1100>>, <<1087, 1086, 1083, 1085, 1086, 1095, 1100>>,
    <<1088, 1072, 1089, 1089, 1074, 1077, 1090>>, <<1079, 1072, 1082, 1072, 1090>>,
    <<1089, 1091, 1084, 1077, 1088, 1082, 1080>>, <<1088, 1072, 1089, 1089, 1074, 1077, 1090>>,
    <<1079, 1072, 1082, 1072, 1090>>,
    <<1076, 1085, 1077, 1074, 1085, 1086, 1081, 32, 1089, 1074, 1077, 1090>>, <<1090, 1100, 1084, 1072>>,
    <<1089, 1086, 1083, 1085, 1094, 1077>>, <<1083, 1091, 1085, 1085, 1099, 1081, 32, 1089, 1074, 1077, 1090>>
  >>

\* Cyrillic letters of layout_switch_ru_to_en (generate_expanded_dataset.py, lines 133-133).
switch_ru_layout ==
    << 1081, 1094, 1091, 1082, 1077, 1085, 1075, 1096, 1097, 1079, 1093, 1092, 1099, 1074, 1072, 1087, 1088,
       1086, 1083, 1076, 1078, 1101, 1103, 1095, 1089, 1084, 1080, 1090, 1073, 1102 >>

\* Latin characters of layout_switch_ru_to_en (generate_expanded_dataset.py, lines 134-134).
switch_en_layout ==
    << 113, 119, 101, 114, 116, 121, 117, 105, 111, 112, 91, 93, 102, 103, 104, 106, 107, 108, 59, 39, 122,
       120, 99, 118, 98, 110, 109, 44, 46, 47 >>

\* ---- Bounds of the model.

\* Every target_count from 0 to MaxSmallTarget is tried (the seed region), besides
\* the totals at which a source stage ends (see TargetCounts).
MaxSmallTarget == 34

\* The process-wide generator may be in any state 0..MaxPriorRng when a run starts.
MaxPriorRng == 1

\* Inputs of convert_to_wrong_layout are all strings over ConvAlphabet up to this length.
MaxLen == 3

\* ---- Python built-ins used by the generators.

\* c in s
In(c, s) == \E i \in 1..Len(s) : s[i] = c

\* s.index(c): the 0-based position of the first occurrence of c in s.
index(s, c) == (CHOOSE i \in 1..Len(s) : s[i] = c /\ \A j \in 1..(i - 1) : s[j] # c) - 1

\* str.lower() on one character: Latin A-Z, Cyrillic capitals and capital IO get
\* their small letters; every other character of the model's alphabets is kept.
lower_char(c) ==
  IF c >= 65 /\ c <= 90 THEN c + 32
  ELSE IF c >= 1040 /\ c <= 1071 THEN c + 32
  ELSE IF c = 1025 THEN 1105
  ELSE c

\* str.lower()
lower(s) == [k \in 1..Len(s) |-> lower_char(s[k])]

\* The generator behind the random module, as a linear congruential generator:
\* the next state of the generator.
rng_next(s) == (75 * s + 74) % 65537

\* random.seed(a): the state depends on a alone.
random_seed(a) == a % 65537

\* random.choice(seq) in generator state s: the element drawn and the state after.
random_choice(s, seq) ==
  [value |-> seq[(rng_next(s) % Len(seq)) + 1], rng |-> rng_next(s)]

\* ---- convert_to_wrong_layout (generate_dataset.py, lines 110-122).

\* A loop body that drops the characters outside ru_layout instead of keeping them.
convert_step_dropping(result, char) ==
  IF In(char, ru_layout)
  THEN LET ru_index == index(ru_layout, char)
       IN  IF ru_index < Len(en_layout)
           THEN result \o <<en_layout[ru_index + 1]>>
           ELSE result \o <<char>>
  ELSE result

\* A loop body that reads en_layout one position too far.
convert_step_shifted(result, char) ==
  IF In(char, ru_layout)
  THEN LET ru_index == index(ru_layout, char) + 1
       IN  IF ru_index < Len(en_layout)
           THEN result \o <<en_layout[ru_index + 1]>>
           ELSE result \o <<char>>
  ELSE result \o <<char>>

\* The body of the for loop: result after one more character.
convert_step(result, char) ==
  IF In(char, ru_layout)
  THEN LET ru_index == index(ru_layout, char)
       IN  IF ru_index < Len(en_layout)
           THEN result \o <<en_layout[ru_index + 1]>>
           ELSE result \o <<char>>
  ELSE result \o <<char>>

RECURSIVE convert_loop(_, _, _)
\* for char in russian_text, from the k-th character on.
convert_loop(russian_text, k, result) ==
  IF k > Len(russian_text)
  THEN result
  ELSE convert_loop(russian_text, k + 1, convert_step(result, russian_text[k]))

convert_to_wrong_layout(russian_text) == convert_loop(russian_text, 1, <<>>)

\* ---- State.
\*   pc             position in the running generator
\*   target_count   the argument of generate_dataset (generate_dataset.py)
\*   dataset        the list being built
\*   idx            position of the running for loop (1-based)
\*   word, phrase, wrong_layout   the locals of the same names (<<>>: not yet bound)
\*   rng            state of the process-wide generator of the random module
\*   random_ru_for_wrong   the local of the same name (generate_expanded_dataset.py)
\*   returned       what the calls made so far returned, in call order
\*   entry_rng      the generator's state at the entry of each call, in call order
\*   exhausted      the for loops of the running call that ran to their last item
\*                  without break
VARIABLES pc, target_count, dataset, idx, word, phrase, wrong_layout, rng,
          random_ru_for_wrong, returned, entry_rng, exhausted, written, switched

vars == <<pc, target_count, dataset, idx, word, phrase, wrong_layout, rng,
          random_ru_for_wrong, returned, entry_rng, exhausted, written, switched>>

Last(s) == s[Len(s)]

Min(a, b) == IF a < b THEN a ELSE b

PriorRngStates == 0..MaxPriorRng

\* ---- generate_dataset of generate_dataset.py (lines 124-239).

\* A first statement that honours the quota: at most n seed pairs.
extend_original_capped(d, n) == d \o SubSeq(original_data, 1, Min(n, Len(original_data)))

\* dataset.extend(original_data) on dataset d; the target count n plays no part.
extend_original(d, n) == d \o original_data

\* The cutoff test of every insertion loop: len(dataset) >= target_count.
reached(d, n) == Len(d) >= n

\* A stage guard with the comparison reversed.
more_needed_reversed(d, n) == Len(d) > n

\* The guard of the phrase and combination stages: len(dataset) < target_count.
more_needed(d, n) == Len(d) < n

\* A word filter without the minimum length.
accept_word_any_length(wl, w) == wl # w

\* The filter of the word stage: wrong_layout != word and len(wrong_layout) > 2.
accept_word(wl, w) == wl # w /\ Len(wl) > 2

\* The filter of the phrase and combination stages: wrong_layout != phrase.
accept_phrase(wl, p) == wl # p

\* russian_words[:250]
russian_to_convert == SubSeq(russian_words, 1, Min(250, Len(russian_words)))

\* short_russian_words: [w for w in russian_words if len(w) >= 3 and len(w) <= 8][:100]
short_russian_words ==
  LET short(w) == Len(w) >= 3 /\ Len(w) <= 8
      f == SelectSeq(russian_words, short)
  IN  SubSeq(f, 1, Min(100, Len(f)))

\* A combination stage that draws without seeding the generator first.
seed_generator_missing(s) == s

\* random.seed(42) on the generator in state s.
seed_generator(s) == random_seed(42)

\* The end of one iteration of a for loop over n items whose next stage is next:
\* break when the cutoff is reached, leave the loop after its last item, else go on.
Advance(n, next) ==
  /\ pc' = IF reached(dataset', target_count) \/ idx = n THEN next ELSE pc
  /\ idx' = IF reached(dataset', target_count) \/ idx = n THEN 1 ELSE idx + 1
  /\ exhausted' = IF ~reached(dataset', target_count) /\ idx = n
                  THEN exhausted \cup {pc}
                  ELSE exhausted

\* Entry of generate_dataset: dataset = [] and the seed pairs.
Entry ==
  /\ pc = "start"
  /\ dataset' = extend_original(<<>>, target_count)
  /\ pc' = "english"
  /\ idx' = 1
  /\ entry_rng' = Append(entry_rng, rng)
  /\ UNCHANGED <<switched, written, target_count, word, phrase, wrong_layout, rng, random_ru_for_wrong,
                 returned, exhausted>>

\* The English loop as it would be if it inserted at the head of the corpus.
English_prepending ==
  /\ pc = "english"
  /\ word' = english_words[idx]
  /\ dataset' = << <<lower(word'), "en">> >> \o dataset
  /\ Advance(Len(english_words), "russian")
  /\ UNCHANGED <<switched, written, target_count, phrase, wrong_layout, rng, random_ru_for_wrong,
                 returned, entry_rng>>

\* One iteration of: for word in english_words.
English ==
  /\ pc = "english"
  /\ word' = english_words[idx]
  /\ dataset' = Append(dataset, <<lower(word'), "en">>)
  /\ Advance(Len(english_words), "russian")
  /\ UNCHANGED <<switched, written, target_count, phrase, wrong_layout, rng, random_ru_for_wrong,
                 returned, entry_rng>>

\* The Russian loop as it would be with a label outside the defined three.
Russian_mislabelled ==
  /\ pc = "russian"
  /\ word' = russian_words[idx]
  /\ dataset' = Append(dataset, <<word', "rus">>)
  /\ Advance(Len(russian_words), "wrong_words")
  /\ UNCHANGED <<switched, written, target_count, phrase, wrong_layout, rng, random_ru_for_wrong,
                 returned, entry_rng>>

\* One iteration of: for word in russian_words.
Russian ==
  /\ pc = "russian"
  /\ word' = russian_words[idx]
  /\ dataset' = Append(dataset, <<word', "ru">>)
  /\ Advance(Len(russian_words), "wrong_words")
  /\ UNCHANGED <<switched, written, target_count, phrase, wrong_layout, rng, random_ru_for_wrong,
                 returned, entry_rng>>

\* One iteration of: for word in russian_to_convert.
WrongWords ==
  /\ pc = "wrong_words"
  /\ word' = russian_to_convert[idx]
  /\ wrong_layout' = convert_to_wrong_layout(word')
  /\ dataset' = IF accept_word(wrong_layout', word')
                THEN Append(dataset, <<lower(wrong_layout'), "ru_wrong">>)
                ELSE dataset
  /\ Advance(Len(russian_to_convert), "if_en_phrases")
  /\ UNCHANGED <<switched, written, target_count, phrase, rng, random_ru_for_wrong, returned, entry_rng>>

\* if len(dataset) < target_count, before the English phrases.
IfEnPhrases ==
  /\ pc = "if_en_phrases"
  /\ pc' = IF more_needed(dataset, target_count) THEN "en_phrases" ELSE "if_ru_phrases"
  /\ UNCHANGED <<switched, written, target_count, dataset, idx, word, phrase, wrong_layout, rng,
                 random_ru_for_wrong, returned, entry_rng, exhausted>>

\* One iteration of: for phrase in en_phrases.
EnPhrases ==
  /\ pc = "en_phrases"
  /\ phrase' = en_phrases[idx]
  /\ dataset' = Append(dataset, <<lower(phrase'), "en">>)
  /\ Advance(Len(en_phrases), "if_ru_phrases")
  /\ UNCHANGED <<switched, written, target_count, word, wrong_layout, rng, random_ru_for_wrong,
                 returned, entry_rng>>

\* if len(dataset) < target_count, before the Russian phrases.
IfRuPhrases ==
  /\ pc = "if_ru_phrases"
  /\ pc' = IF more_needed(dataset, target_count) THEN "ru_phrases" ELSE "if_wrong_phrases"
  /\ UNCHANGED <<switched, written, target_count, dataset, idx, word, phrase, wrong_layout, rng,
                 random_ru_for_wrong, returned, entry_rng, exhausted>>

\* One iteration of: for phrase in ru_phrases.
RuPhrases ==
  /\ pc = "ru_phrases"
  /\ phrase' = ru_phrases[idx]
  /\ dataset' = Append(dataset, <<phrase', "ru">>)
  /\ Advance(Len(ru_phrases), "if_wrong_phrases")
  /\ UNCHANGED <<switched, written, target_count, word, wrong_layout, rng, random_ru_for_wrong,
                 returned, entry_rng>>

\* if len(dataset) < target_count, before the transliterated phrases.
IfWrongPhrases ==
  /\ pc = "if_wrong_phrases"
  /\ pc' = IF more_needed(dataset, target_count) THEN "wrong_phrases" ELSE "if_combos"
  /\ UNCHANGED <<switched, written, target_count, dataset, idx, word, phrase, wrong_layout, rng,
                 random_ru_for_wrong, returned, entry_rng, exhausted>>

\* One iteration of: for phrase in ru_phrases_to_convert.
WrongPhrases ==
  /\ pc = "wrong_phrases"
  /\ phrase' = ru_phrases_to_convert[idx]
  /\ wrong_layout' = convert_to_wrong_layout(phrase')
  /\ dataset' = IF accept_phrase(wrong_layout', phrase')
                THEN Append(dataset, <<lower(wrong_layout'), "ru_wrong">>)
                ELSE dataset
  /\ Advance(Len(ru_phrases_to_convert), "if_combos")
  /\ UNCHANGED <<switched, written, target_count, word, rng, random_ru_for_wrong, returned, entry_rng>>

\* if len(dataset) < target_count, before the combinations: random.seed(42).
IfCombos ==
  /\ pc = "if_combos"
  /\ IF more_needed(dataset, target_count)
     THEN pc' = "combos" /\ rng' = seed_generator(rng)
     ELSE pc' = "return" /\ rng' = rng
  /\ UNCHANGED <<switched, written, target_count, dataset, idx, word, phrase, wrong_layout,
                 random_ru_for_wrong, returned, entry_rng, exhausted>>

\* One iteration of: for i in range(50).
Combos ==
  /\ pc = "combos"
  /\ IF Len(short_russian_words) >= 2
     THEN LET word1 == random_choice(rng, short_russian_words)
              word2 == random_choice(word1.rng, short_russian_words)
          IN  /\ rng' = word2.rng
              /\ phrase' = word1.value \o <<32>> \o word2.value
              /\ wrong_layout' = convert_to_wrong_layout(phrase')
              /\ dataset' = IF accept_phrase(wrong_layout', phrase')
                            THEN Append(dataset, <<lower(wrong_layout'), "ru_wrong">>)
                            ELSE dataset
     ELSE UNCHANGED <<rng, phrase, wrong_layout, dataset>>
  /\ Advance(50, "return")
  /\ UNCHANGED <<switched, written, target_count, word, random_ru_for_wrong, returned, entry_rng>>

\* return dataset
Return ==
  /\ pc = "return"
  /\ returned' = Append(returned, dataset)
  /\ pc' = "done"
  /\ UNCHANGED <<switched, written, target_count, dataset, idx, word, phrase, wrong_layout, rng,
                 random_ru_for_wrong, entry_rng, exhausted>>

\* A second call of generate_dataset with the same argument; any code may have
\* drawn from the process-wide generator in between.
CallAgain ==
  /\ pc = "done"
  /\ Len(returned) < 2
  /\ pc' = "start"
  /\ rng' \in PriorRngStates
  /\ dataset' = <<>>
  /\ idx' = 1
  /\ word' = <<>>
  /\ phrase' = <<>>
  /\ wrong_layout' = <<>>
  /\ exhausted' = {}
  /\ UNCHANGED <<switched, written, target_count, random_ru_for_wrong, returned, entry_rng>>

\* The number of examples each stage of generate_dataset can supply.
AcceptedWords ==
  Cardinality({k \in 1..Len(russian_to_convert) :
     accept_word(convert_to_wrong_layout(russian_to_convert[k]), russian_to_convert[k])})

AcceptedPhrases ==
  Cardinality({k \in 1..Len(ru_phrases_to_convert) :
     accept_phrase(convert_to_wrong_layout(ru_phrases_to_convert[k]), ru_phrases_to_convert[k])})

\* The running total at the end of each stage when no cutoff intervenes; the
\* combinations of Cyrillic words all pass their filter.
StageTotals ==
  LET t1 == Len(original_data)
      t2 == t1 + Len(english_words)
      t3 == t2 + Len(russian_words)
      t4 == t3 + AcceptedWords
      t5 == t4 + Len(en_phrases)
      t6 == t5 + Len(ru_phrases)
      t7 == t6 + AcceptedPhrases
      t8 == t7 + 50
  IN  <<t1, t2, t3, t4, t5, t6, t7, t8>>

\* if __name__ == "__main__": generate_dataset(target_count=1200)
DefaultTargetCount == 1200

\* The arguments tried: the small ones, each stage total and the one after it,
\* and the default.
TargetCounts ==
  (0..MaxSmallTarget)
    \cup {StageTotals[k] + d : k \in 2..8, d \in {0, 1}}
    \cup {DefaultTargetCount}

Init ==
  /\ pc = "start"
  /\ target_count \in TargetCounts
  /\ dataset = <<>>
  /\ idx = 1
  /\ word = <<>>
  /\ phrase = <<>>
  /\ wrong_layout = <<>>
  /\ rng = 0
  /\ random_ru_for_wrong = <<>>
  /\ returned = <<>>
  /\ entry_rng = <<>>
  /\ exhausted = {}
  /\ written = <<>>
  /\ switched = <<>>

Next ==
  \/ Entry \/ English \/ Russian \/ WrongWords
  \/ IfEnPhrases \/ EnPhrases \/ IfRuPhrases \/ RuPhrases
  \/ IfWrongPhrases \/ WrongPhrases \/ IfCombos \/ Combos \/ Return

\* One call of generate_dataset(target_count).
Spec == Init /\ [][Next]_vars

InitRepeat ==
  /\ pc = "start"
  /\ target_count \in TargetCounts
  /\ dataset = <<>>
  /\ idx = 1
  /\ word = <<>>
  /\ phrase = <<>>
  /\ wrong_layout = <<>>
  /\ rng \in PriorRngStates
  /\ random_ru_for_wrong = <<>>
  /\ returned = <<>>
  /\ entry_rng = <<>>
  /\ exhausted = {}
  /\ written = <<>>
  /\ switched = <<>>

NextRepeat == Next \/ CallAgain

\* Two calls of generate_dataset(target_count) in one process, the generator in
\* any state before each.
SpecRepeat == InitRepeat /\ [][NextRepeat]_vars

\* ---- generate_expanded_dataset.py.

\* random._randbelow(n) in generator state s: the number drawn and the state after.
randbelow(s, n) == [value |-> rng_next(s) % n, rng |-> rng_next(s)]

\* One iteration of random.sample's pool loop, i counted from 0:
\* j = randbelow(n - i); result[i] = pool[j]; pool[j] = pool[n - i - 1].
sample_step(st, i) ==
  LET n == Len(st.pool)
      j == randbelow(st.rng, n - i)
  IN  [rng |-> j.rng,
       result |-> Append(st.result, st.pool[j.value + 1]),
       pool |-> [st.pool EXCEPT ![j.value + 1] = st.pool[n - i]]]

RECURSIVE sample_range(_, _, _)
\* The iterations lo..hi of the pool loop, in rising order. The range is halved
\* and the first half is evaluated (its generator state read) before the second
\* starts, so that the evaluation does not nest once per iteration.
sample_range(st, lo, hi) ==
  IF lo > hi THEN st
  ELSE IF lo = hi THEN sample_step(st, lo)
  ELSE LET mid == (lo + hi) \div 2
           first == sample_range(st, lo, mid)
       IN  IF first.rng >= 0 THEN sample_range(first, mid + 1, hi) ELSE first

\* random.sample(population, k) in generator state s, by the pool loop the
\* library runs for a population this small: the sample and the state after.
random_sample(s, population, k) ==
  LET st == sample_range([rng |-> s, result |-> <<>>, pool |-> population], 0, k - 1)
  IN  [value |-> st.result, rng |-> st.rng]

\* One iteration of random.shuffle, i counted from 0:
\* j = randbelow(i + 1); x[i], x[j] = x[j], x[i].
shuffle_step(st, i) ==
  LET j == randbelow(st.rng, i + 1)
  IN  [rng |-> j.rng,
       x |-> [st.x EXCEPT ![i + 1] = st.x[j.value + 1], ![j.value + 1] = st.x[i + 1]]]

RECURSIVE shuffle_range(_, _, _)
\* The iterations hi..lo of the shuffle loop, in falling order, halved as in
\* sample_range.
shuffle_range(st, lo, hi) ==
  IF lo > hi THEN st
  ELSE IF lo = hi THEN shuffle_step(st, lo)
  ELSE LET mid == (lo + hi) \div 2
           first == shuffle_range(st, mid + 1, hi)
       IN  IF first.rng >= 0 THEN shuffle_range(first, lo, mid) ELSE first

\* random.shuffle(x) in generator state s: for i in reversed(range(1, len(x))).
random_shuffle(s, x) ==
  LET st == shuffle_range([rng |-> s, x |-> x], 1, Len(x) - 1)
  IN  [value |-> st.x, rng |-> st.rng]

\* str.maketrans(x, y): each character of x to the character of y at its
\* position, the last position winning.
maketrans(x, y) ==
  [c \in {x[i] : i \in 1..Len(x)} |->
     y[CHOOSE i \in 1..Len(x) : x[i] = c /\ \A j \in (i + 1)..Len(x) : x[j] # c]]

\* text.translate(table)
translate(text, table) ==
  [k \in 1..Len(text) |-> IF text[k] \in DOMAIN table THEN table[text[k]] ELSE text[k]]

\* layout_switch_ru_to_en (lines 127-136).
layout_switch_ru_to_en(text) ==
  LET ru_to_en_map == maketrans(switch_ru_layout, switch_en_layout)
  IN  translate(text, ru_to_en_map)

\* The examples one for loop appends: each item of a list with one label.
labelled(list, label) == [k \in 1..Len(list) |-> <<list[k], label>>]

\* The lists appended one after the other, after the popular words.
en_lists == <<conjunctions_en, short_en, phrases_en, additional_en>>

ru_lists == <<conjunctions_ru, short_ru, phrases_ru, additional_ru>>

\* all_ru_words = popular_ru + additional_ru
all_ru_words == popular_ru \o additional_ru

\* Entry of generate_dataset: dataset = [].
ExpEntry ==
  /\ pc = "x_start"
  /\ dataset' = <<>>
  /\ pc' = "x_popular_en"
  /\ idx' = 1
  /\ entry_rng' = Append(entry_rng, rng)
  /\ UNCHANGED <<switched, written, target_count, word, phrase, wrong_layout, rng, random_ru_for_wrong,
                 returned, exhausted>>

\* One iteration of: for _ in range(12), over popular_en[:250].
ExpPopularEn ==
  /\ pc = "x_popular_en"
  /\ dataset' = dataset \o labelled(SubSeq(popular_en, 1, Min(250, Len(popular_en))), "en")
  /\ pc' = IF idx = 12 THEN "x_lists_en" ELSE pc
  /\ idx' = IF idx = 12 THEN 1 ELSE idx + 1
  /\ UNCHANGED <<switched, written, target_count, word, phrase, wrong_layout, rng, random_ru_for_wrong,
                 returned, entry_rng, exhausted>>

\* One of the for loops over conjunctions_en, short_en, phrases_en, additional_en.
ExpListsEn ==
  /\ pc = "x_lists_en"
  /\ dataset' = dataset \o labelled(en_lists[idx], "en")
  /\ pc' = IF idx = Len(en_lists) THEN "x_popular_ru" ELSE pc
  /\ idx' = IF idx = Len(en_lists) THEN 1 ELSE idx + 1
  /\ UNCHANGED <<switched, written, target_count, word, phrase, wrong_layout, rng, random_ru_for_wrong,
                 returned, entry_rng, exhausted>>

\* One iteration of: for _ in range(12), over popular_ru[:250].
ExpPopularRu ==
  /\ pc = "x_popular_ru"
  /\ dataset' = dataset \o labelled(SubSeq(popular_ru, 1, Min(250, Len(popular_ru))), "ru")
  /\ pc' = IF idx = 12 THEN "x_lists_ru" ELSE pc
  /\ idx' = IF idx = 12 THEN 1 ELSE idx + 1
  /\ UNCHANGED <<switched, written, target_count, word, phrase, wrong_layout, rng, random_ru_for_wrong,
                 returned, entry_rng, exhausted>>

\* One of the for loops over conjunctions_ru, short_ru, phrases_ru, additional_ru.
ExpListsRu ==
  /\ pc = "x_lists_ru"
  /\ dataset' = dataset \o labelled(ru_lists[idx], "ru")
  /\ pc' = IF idx = Len(ru_lists) THEN "x_sample" ELSE pc
  /\ idx' = IF idx = Len(ru_lists) THEN 1 ELSE idx + 1
  /\ UNCHANGED <<switched, written, target_count, word, phrase, wrong_layout, rng, random_ru_for_wrong,
                 returned, entry_rng, exhausted>>

\* random_ru_for_wrong = random.sample(all_ru_words, min(1000, len(all_ru_words)))
ExpSample ==
  /\ pc = "x_sample"
  /\ LET drawn == random_sample(rng, all_ru_words, Min(1000, Len(all_ru_words)))
     IN  /\ random_ru_for_wrong' = drawn.value
         /\ rng' = drawn.rng
  /\ pc' = "x_wrong"
  /\ UNCHANGED <<switched, written, target_count, dataset, idx, word, phrase, wrong_layout, returned,
                 entry_rng, exhausted>>

\* for word in random_ru_for_wrong: every word's transliteration is appended.
ExpWrong ==
  /\ pc = "x_wrong"
  /\ dataset' = dataset \o
       [k \in 1..Len(random_ru_for_wrong) |->
          <<layout_switch_ru_to_en(random_ru_for_wrong[k]), "ru_wrong">>]
  /\ pc' = "x_shuffle"
  /\ UNCHANGED <<switched, written, target_count, idx, word, phrase, wrong_layout, rng,
                 random_ru_for_wrong, returned, entry_rng, exhausted>>

\* random.shuffle(dataset)
ExpShuffle ==
  /\ pc = "x_shuffle"
  /\ LET shuffled == random_shuffle(rng, dataset)
     IN  /\ dataset' = shuffled.value
         /\ rng' = shuffled.rng
  /\ pc' = "x_return"
  /\ UNCHANGED <<switched, written, target_count, idx, word, phrase, wrong_layout, random_ru_for_wrong,
                 returned, entry_rng, exhausted>>

\* return dataset[:5000]
ExpReturn ==
  /\ pc = "x_return"
  /\ returned' = Append(returned, SubSeq(dataset, 1, Min(5000, Len(dataset))))
  /\ pc' = "x_done"
  /\ UNCHANGED <<switched, written, target_count, dataset, idx, word, phrase, wrong_layout, rng,
                 random_ru_for_wrong, entry_rng, exhausted>>

\* A second run of the script: a new process, whose generator the random module
\* seeds from the system's entropy when it is imported, since the script
\* never calls random.seed.
ExpRunAgain ==
  /\ pc = "x_done"
  /\ Len(returned) < 2
  /\ pc' = "x_start"
  /\ rng' \in PriorRngStates
  /\ dataset' = <<>>
  /\ idx' = 1
  /\ random_ru_for_wrong' = <<>>
  /\ UNCHANGED <<switched, written, target_count, word, phrase, wrong_layout, returned, entry_rng, exhausted>>

InitExp ==
  /\ pc = "x_start"
  /\ rng \in PriorRngStates
  /\ target_count = 0
  /\ dataset = <<>>
  /\ idx = 1
  /\ word = <<>>
  /\ phrase = <<>>
  /\ wrong_layout = <<>>
  /\ random_ru_for_wrong = <<>>
  /\ returned = <<>>
  /\ entry_rng = <<>>
  /\ exhausted = {}
  /\ written = <<>>
  /\ switched = <<>>

NextExp ==
  \/ ExpEntry \/ ExpPopularEn \/ ExpListsEn \/ ExpPopularRu \/ ExpListsRu
  \/ ExpSample \/ ExpWrong \/ ExpShuffle \/ ExpReturn \/ ExpRunAgain

\* Two runs of generate_expanded_dataset.py, the generator of each in any state
\* at the start.
SpecExp == InitExp /\ [][NextExp]_vars

\* ---- Properties of generate_expanded_dataset.py.

\* C7: two runs with unmodified source lists return the same sequence of
\* (text, label) pairs.
SameResultAcrossRuns ==
  (pc = "x_done" /\ Len(returned) = 2) => returned[1] = returned[2]

\* C10: no ru_wrong example that generate_dataset appends is identical to the
\* Russian word it was derived from or shorter than 3 characters.
NoDegenerateWrongLayout ==
  pc = "x_shuffle" =>
    \A k \in 1..Len(random_ru_for_wrong) :
      LET example == dataset[Len(dataset) - Len(random_ru_for_wrong) + k]
      IN  /\ example[2] = "ru_wrong"
          /\ example[1] # random_ru_for_wrong[k]
          /\ Len(example[1]) >= 3

\* ---- convert_to_wrong_layout called on its own.

\* Characters the inputs are made of: a small Cyrillic letter (in ru_layout), a
\* capital one (in ru_layout), '.' and ',' (both in ru_layout), the space, a
\* digit, a Latin letter, and the letters io, small and capital (not in ru_layout).
ConvAlphabet == {1087, 1066, 46, 44, 32, 55, 104, 1105, 1025}

\* The word of the documented scenario, the first of russian_words.
ConvScenarios == {russian_words[1]}

\* Every character of ru_layout as a text of its own.
ConvLetters == {<<ru_layout[i]>> : i \in 1..Len(ru_layout)}

ConvInputs ==
  UNION {[1..n -> ConvAlphabet] : n \in 0..MaxLen} \cup ConvScenarios \cup ConvLetters

InitConv ==
  /\ pc = "convert"
  /\ word \in ConvInputs
  /\ wrong_layout = <<>>
  /\ target_count = 0
  /\ dataset = <<>>
  /\ idx = 1
  /\ phrase = <<>>
  /\ rng = 0
  /\ random_ru_for_wrong = <<>>
  /\ returned = <<>>
  /\ entry_rng = <<>>
  /\ exhausted = {}
  /\ written = <<>>
  /\ switched = <<>>

\* wrong_layout = convert_to_wrong_layout(word)
Convert ==
  /\ pc = "convert"
  /\ wrong_layout' = convert_to_wrong_layout(word)
  /\ pc' = "converted"
  /\ UNCHANGED <<switched, written, target_count, dataset, idx, word, phrase, rng, random_ru_for_wrong,
                 returned, entry_rng, exhausted>>

NextConv == Convert

SpecConv == InitConv /\ [][NextConv]_vars

\* ---- Properties of generate_dataset.py.

\* C1: generate_dataset(N) never returns a sequence longer than N.
NeverLongerThanTarget == pc = "done" => Len(Last(returned)) <= target_count

\* C2: once the running total has reached target_count inside an insertion loop
\* (the total is past the seed pairs and at or over the target), no later step
\* appends an example.
NoAppendAfterCutoff ==
  [][(Len(dataset) > Len(original_data) /\ reached(dataset, target_count))
       => dataset' = dataset]_vars

\* C3: the result of convert_to_wrong_layout has the length of its input.
LengthPreserved == pc = "converted" => Len(wrong_layout) = Len(word)

LengthPreservedWitness ==
  /\ pc = "converted"
  /\ Len(word) = 3
  /\ In(word[1], ru_layout)
  /\ ~In(word[2], ru_layout)
  /\ wrong_layout # word

\* C4: position by position, a character of ru_layout becomes the character of
\* en_layout at the same index and any other character is kept.
CharwiseMapping ==
  pc = "converted" =>
    \A k \in 1..Len(word) :
      /\ k <= Len(wrong_layout)
      /\ IF \E i \in 1..Len(ru_layout) : ru_layout[i] = word[k]
         THEN \E i \in 1..Len(ru_layout) :
                /\ ru_layout[i] = word[k]
                /\ i <= Len(en_layout)
                /\ wrong_layout[k] = en_layout[i]
         ELSE wrong_layout[k] = word[k]

CharwiseMappingWitness ==
  /\ pc = "converted"
  /\ word = <<1087, 1105, 46>>
  /\ wrong_layout = <<103, 1105, 47>>

\* C5: whatever the target, the result starts with the seed pairs of
\* original_data, in their order and with their labels.
SeedsFirst ==
  pc = "done" =>
    /\ Len(Last(returned)) >= Len(original_data)
    /\ SubSeq(Last(returned), 1, Len(original_data)) = original_data

SeedsFirstWitness ==
  /\ pc = "done"
  /\ target_count < Len(original_data)
  /\ Last(returned)[Len(original_data)] = original_data[Len(original_data)]

\* C6: two calls with the same target return the same sequence, whatever the
\* state of the generator before each; and the combination stage makes its
\* first draw from the generator as seeded with 42.
SameResultOnRepeat ==
  /\ Len(returned) = 2 => returned[1] = returned[2]
  /\ (pc = "combos" /\ idx = 1) => rng = random_seed(42)

SameResultOnRepeatWitness ==
  /\ Len(returned) = 2
  /\ entry_rng[1] # entry_rng[2]
  /\ Len(returned[2]) > StageTotals[7]
  /\ 32 \in {Last(returned[2])[1][k] : k \in 1..Len(Last(returned[2])[1])}

\* The for loops of generate_dataset.
LoopStages ==
  {"english", "russian", "wrong_words", "en_phrases", "ru_phrases", "wrong_phrases", "combos"}

\* What all sources together can supply.
TotalSupply == StageTotals[8]

\* C8: with a target over what the sources supply, the call always has a next
\* step until it has returned, every loop runs to its last item without break,
\* and the result is shorter than the target.
UnderQuotaReturns ==
  target_count > TotalSupply =>
    IF pc = "done"
    THEN /\ Len(Last(returned)) < target_count
         /\ exhausted = LoopStages
    ELSE ENABLED Next

UnderQuotaReturnsWitness ==
  /\ pc = "done"
  /\ target_count = DefaultTargetCount
  /\ target_count > TotalSupply
  /\ Len(Last(returned)) = TotalSupply

\* C9: every synthesized ru_wrong example (one appended by a step of a loop) is
\* the lower-cased transliteration of the Russian input of that step, and that
\* transliteration differs from the input and has at least 3 characters.
SynthesizedNotDegenerate ==
  [][(Len(dataset') = Len(dataset) + 1 /\ Last(dataset')[2] = "ru_wrong")
       => LET src == IF pc = "wrong_words" THEN word' ELSE phrase'
          IN  /\ pc \in {"wrong_words", "wrong_phrases", "combos"}
              /\ wrong_layout' = convert_to_wrong_layout(src)
              /\ Last(dataset')[1] = lower(wrong_layout')
              /\ wrong_layout' # src
              /\ Len(wrong_layout') >= 3]_vars

SynthesizedNotDegenerateWitness ==
  /\ pc = "done"
  /\ Len(dataset) = TotalSupply
  /\ dataset[StageTotals[4]][2] = "ru_wrong"
  /\ dataset[StageTotals[7]][2] = "ru_wrong"
  /\ Last(dataset) = <<lower(wrong_layout), "ru_wrong">>
  /\ wrong_layout = convert_to_wrong_layout(phrase)

\* ---- Properties of both generators.

InitGenerators == Init \/ InitExp

NextGenerators == Next \/ NextExp

\* One call of generate_dataset of generate_dataset.py, or runs of
\* generate_expanded_dataset.py.
SpecGenerators == InitGenerators /\ [][NextGenerators]_vars

\* The labels an example may carry.
Labels == {"en", "ru", "ru_wrong"}

\* C11: every example of a sequence that either generate_dataset returns (the
\* base one for every target_count, the expanded one) carries a label from
\* {en, ru, ru_wrong}.
LabelsDefined ==
  pc \in {"done", "x_done"} =>
    \A k \in 1..Len(Last(returned)) :
      /\ Len(Last(returned)[k]) = 2
      /\ Last(returned)[k][2] \in Labels

LabelsDefinedWitness ==
  /\ pc = "x_done"
  /\ Len(Last(returned)) = 5000
  /\ {Last(returned)[k][2] : k \in 1..Len(Last(returned))} = Labels


\* ---- save_dataset of generate_dataset.py.

\* f"{label}": the characters of a label.
label_text(label) ==
  CASE label = "en" -> <<101, 110>>
    [] label = "ru" -> <<114, 117>>
    [] label = "ru_wrong" -> <<114, 117, 95, 119, 114, 111, 110, 103>>

\* "text,label\n"
header == <<116, 101, 120, 116, 44, 108, 97, 98, 101, 108, 10>>

\* The escaping as it would be if no text were quoted.
escaped_text_unquoted(text) == text

\* escaped_text = f'"{text}"' if ',' in text else text
escaped_text(text) == IF In(44, text) THEN <<34>> \o text \o <<34>> ELSE text

\* f.write(f"{escaped_text},{label}\n")
write_row(f, text, label) ==
  f \o escaped_text(text) \o <<44>> \o label_text(label) \o <<10>>

\* for text, label in dataset, from the k-th example on.
RECURSIVE save_loop(_, _, _)
save_loop(d, k, f) ==
  IF k > Len(d) THEN f ELSE save_loop(d, k + 1, write_row(f, d[k][1], d[k][2]))

\* The content of the file that save_dataset(dataset, output_path) leaves.
save_dataset(d) == save_loop(d, 1, header)

\* The longest text and the longest corpus handed to save_dataset.
MaxTextLen == 1

MaxRows == 2

\* Characters of the texts: a letter, the comma and the double quote.
SaveAlphabet == {97, 44, 34}

SaveTexts == UNION {[1..n -> SaveAlphabet] : n \in 0..MaxTextLen}

SaveExamples == {<<t, l>> : t \in SaveTexts, l \in Labels}

SaveLengths == 0..MaxRows

InitSave ==
  /\ pc = "save"
  /\ \E n \in SaveLengths : dataset \in [1..n -> SaveExamples]
  /\ written = <<>>
  /\ switched = <<>>
  /\ target_count = 0
  /\ idx = 1
  /\ word = <<>>
  /\ phrase = <<>>
  /\ wrong_layout = <<>>
  /\ rng = 0
  /\ random_ru_for_wrong = <<>>
  /\ returned = <<>>
  /\ entry_rng = <<>>
  /\ exhausted = {}

\* save_dataset(dataset, output_path), up to the closing of the file.
Save ==
  /\ pc = "save"
  /\ written' = save_dataset(dataset)
  /\ pc' = "saved"
  /\ UNCHANGED <<switched, target_count, dataset, idx, word, phrase, wrong_layout, rng,
                 random_ru_for_wrong, returned, entry_rng, exhausted>>

NextSave == Save

SpecSave == InitSave /\ [][NextSave]_vars

\* The lines of a text: the pieces that end with a line feed, without it, and
\* what follows the last line feed if anything does.
RECURSIVE lines_from(_, _, _)
lines_from(s, k, line) ==
  IF k > Len(s) THEN (IF line = <<>> THEN <<>> ELSE <<line>>)
  ELSE IF s[k] = 10 THEN <<line>> \o lines_from(s, k + 1, <<>>)
  ELSE lines_from(s, k + 1, Append(line, s[k]))

ConvertsGreeting ==
  (pc = "converted" /\ word = <<1087, 1088, 1080, 1074, 1077, 1090>>) =>
    /\ wrong_layout = <<103, 104, 98, 100, 116, 110>>
    /\ \E k \in 1..Len(original_data) : original_data[k] = <<wrong_layout, "ru_wrong">>

ConvertsGreetingWitness ==
  /\ pc = "converted"
  /\ word = <<1087, 1088, 1080, 1074, 1077, 1090>>
  /\ Len(wrong_layout) = 6
  /\ wrong_layout[3] = 98


\* ---- The composition of the expanded corpus.

\* How many examples of a corpus carry a label.
count_label(d, label) == Cardinality({k \in 1..Len(d) : d[k][2] = label})

\* C14: the generate_dataset of generate_expanded_dataset.py returns 5000
\* examples, 2500 of them with the label ru and 2500 with the label en.
HalfRussianHalfEnglish ==
  pc = "x_done" =>
    /\ Len(Last(returned)) = 5000
    /\ count_label(Last(returned), "ru") = 2500
    /\ count_label(Last(returned), "en") = 2500


\* ---- The growth of the corpus in generate_dataset.py.

\* The place of a position of generate_dataset in the order of the stages:
\* seeds, English words, Russian words, transliterated words, English phrases,
\* Russian phrases, transliterated phrases, combinations, return.
stage_rank(p) ==
  CASE p = "start" -> 0
    [] p = "english" -> 1
    [] p = "russian" -> 2
    [] p = "wrong_words" -> 3
    [] p \in {"if_en_phrases", "en_phrases"} -> 4
    [] p \in {"if_ru_phrases", "ru_phrases"} -> 5
    [] p \in {"if_wrong_phrases", "wrong_phrases"} -> 6
    [] p \in {"if_combos", "combos"} -> 7
    [] p \in {"return", "done"} -> 8

\* The elements of a sequence.
Range(s) == {s[k] : k \in 1..Len(s)}

\* The examples the stage of rank r may add in one step.
stage_examples(r, added) ==
  CASE r = 0 -> added = original_data
    [] r = 1 -> Len(added) = 1 /\ added[1][2] = "en"
                  /\ \E w \in Range(english_words) : added[1][1] = lower(w)
    [] r = 2 -> Len(added) = 1 /\ added[1][2] = "ru"
                  /\ added[1][1] \in Range(russian_words)
    [] r = 3 -> Len(added) = 1 /\ added[1][2] = "ru_wrong"
                  /\ \E w \in Range(russian_to_convert) :
                       added[1][1] = lower(convert_to_wrong_layout(w))
    [] r = 4 -> Len(added) = 1 /\ added[1][2] = "en"
                  /\ \E p \in Range(en_phrases) : added[1][1] = lower(p)
    [] r = 5 -> Len(added) = 1 /\ added[1][2] = "ru"
                  /\ added[1][1] \in Range(ru_phrases)
    [] r = 6 -> Len(added) = 1 /\ added[1][2] = "ru_wrong"
                  /\ \E p \in Range(ru_phrases_to_convert) :
                       added[1][1] = lower(convert_to_wrong_layout(p))
    [] r = 7 -> Len(added) = 1 /\ added[1][2] = "ru_wrong"
                  /\ \E k \in 2..Len(added[1][1]) - 1 : added[1][1][k] = 32
    [] r = 8 -> FALSE

\* C15: in every step of generate_dataset of generate_dataset.py the corpus
\* before the step is a prefix of the corpus after it, the position never goes
\* back to an earlier stage, what a step adds is what the stage it is in
\* supplies, and the result is the corpus as it stands at the return.
GrowsInStageOrder ==
  [][/\ Len(dataset) <= Len(dataset')
     /\ SubSeq(dataset', 1, Len(dataset)) = dataset
     /\ stage_rank(pc) <= stage_rank(pc')
     /\ dataset' # dataset =>
          stage_examples(stage_rank(pc), SubSeq(dataset', Len(dataset) + 1, Len(dataset')))
     /\ returned' # returned => returned' = Append(returned, dataset)]_vars

GrowsInStageOrderWitness ==
  /\ pc = "done"
  /\ Last(returned) = dataset
  /\ Len(dataset) = StageTotals[8]
  /\ dataset[StageTotals[1]] = Last(original_data)
  /\ dataset[StageTotals[1] + 1] = <<lower(english_words[1]), "en">>
  /\ dataset[StageTotals[2] + 1] = <<russian_words[1], "ru">>
  /\ dataset[StageTotals[3] + 1][2] = "ru_wrong"
  /\ dataset[StageTotals[4] + 1] = <<lower(en_phrases[1]), "en">>
  /\ dataset[StageTotals[5] + 1] = <<ru_phrases[1], "ru">>
  /\ dataset[StageTotals[6] + 1][2] = "ru_wrong"
  /\ dataset[StageTotals[7] + 1][2] = "ru_wrong"


\* ---- The layout table of generate_dataset.py.

\* No character occurs twice in s.
no_repeat(s) == \A i, j \in 1..Len(s) : s[i] = s[j] => i = j

\* C16: ru_layout and en_layout have the same length and neither repeats a
\* character; so in any conversion every character of ru_layout finds its index
\* inside en_layout (the fallback of the inner test is not taken) and becomes
\* the character of en_layout there, and different characters of ru_layout
\* become different characters.
OneToOneLayout ==
  /\ Len(ru_layout) = Len(en_layout)
  /\ no_repeat(ru_layout)
  /\ no_repeat(en_layout)
  /\ pc = "converted" =>
       /\ Len(wrong_layout) = Len(word)
       /\ \A k \in 1..Len(word) :
            In(word[k], ru_layout) =>
              /\ index(ru_layout, word[k]) < Len(en_layout)
              /\ wrong_layout[k] = en_layout[index(ru_layout, word[k]) + 1]
              /\ wrong_layout[k] # word[k]
       /\ \A j, k \in 1..Len(word) :
            (In(word[j], ru_layout) /\ In(word[k], ru_layout) /\ word[j] # word[k])
              => wrong_layout[j] # wrong_layout[k]

OneToOneLayoutWitness ==
  /\ pc = "converted"
  /\ word = <<ru_layout[Len(ru_layout)]>>
  /\ wrong_layout = <<en_layout[Len(en_layout)]>>
  /\ Len(ru_layout) = 66


\* ---- The two transliteration functions side by side.

\* The characters layout_switch_ru_to_en maps, and the space.
SwitchAlphabet == {switch_ru_layout[i] : i \in 1..Len(switch_ru_layout)} \cup {32}

SwitchInputs == UNION {[1..n -> SwitchAlphabet] : n \in 0..MaxLen}

InitSwitch ==
  /\ pc = "convert"
  /\ word \in SwitchInputs
  /\ wrong_layout = <<>>
  /\ switched = <<>>
  /\ written = <<>>
  /\ target_count = 0
  /\ dataset = <<>>
  /\ idx = 1
  /\ phrase = <<>>
  /\ rng = 0
  /\ random_ru_for_wrong = <<>>
  /\ returned = <<>>
  /\ entry_rng = <<>>
  /\ exhausted = {}

\* switched = layout_switch_ru_to_en(word)
Switch ==
  /\ pc = "converted"
  /\ switched' = layout_switch_ru_to_en(word)
  /\ pc' = "switched"
  /\ UNCHANGED <<written, target_count, dataset, idx, word, phrase, wrong_layout, rng,
                 random_ru_for_wrong, returned, entry_rng, exhausted>>

NextSwitch == Convert \/ Switch

\* convert_to_wrong_layout and then layout_switch_ru_to_en on the same text.
SpecSwitch == InitSwitch /\ [][NextSwitch]_vars

\* C17: on every text made of the 30 letters that layout_switch_ru_to_en maps
\* and of spaces, layout_switch_ru_to_en returns what convert_to_wrong_layout
\* returns.
TransliterationsAgree == pc = "switched" => switched = wrong_layout

====
